---- MODULE Spec2Model ----
(***************************************************************************)
(* Plugin lifecycle of the godspeed CLI (package plugin, devops.go):       *)
(* Add / Remove / Update of plugins, the package.json dependencies they    *)
(* change through npm, and the stub / config files generated per plugin.   *)
(*                                                                         *)
(* Strings the code takes apart (package names, paths) are sequences of    *)
(* tokens, so prefix tests, splits and joins are computed.  Every handler  *)
(* is one action; what it did (npm invocations, module resolutions, file   *)
(* operations, reports) is recorded in lastOp.log in program order.        *)
(***************************************************************************)
EXTENDS Integers, Sequences, FiniteSets, TLC

VARIABLES dependencies, files, dirs, lastOp, ops

vars == <<dependencies, files, dirs, lastOp, ops>>

\* ------------------------------------------------------------------ bounds
\* largest number of options ticked in one interactive multi-selection
MaxBatch == 2
\* largest number of node child processes and file-system calls that fail in
\* one operation
MaxFail == 1
\* number of commands run in the project
MaxOps == 2
\* largest number of dependencies in a manifest handed to the reader
MaxDeps == 3
\* largest number of entries of a snapshot file and of a registry answer
MaxList == 2
\* largest number of lines of a .env file
MaxLines == 3
\* largest number of entries of services.json before the first command
MaxServices == 2

\* --------------------------------------------------------------- sequences
Range(s) == {s[i] : i \in DOMAIN s}

IsPrefixSeq(p, s) == Len(p) <= Len(s) /\ SubSeq(s, 1, Len(p)) = p

\* the elements of s at the indexes in I, in the order of s
SelectIdx(s, I) ==
    LET F[i \in 0..Len(s)] ==
          IF i = 0 THEN <<>>
          ELSE IF i \in I THEN Append(F[i-1], s[i]) ELSE F[i-1]
    IN  F[Len(s)]

\* sequences without repetition over S, of length at most n
Arrangements(S, n) ==
    {s \in UNION {[1..k -> S] : k \in 0..n} :
        \A i, j \in DOMAIN s : i # j => s[i] # s[j]}

\* the subsets of S with at most n elements
RECURSIVE SmallSubsets(_, _)
SmallSubsets(S, n) ==
    IF n = 0 THEN {{}}
    ELSE LET smaller == SmallSubsets(S, n - 1)
         IN  smaller \cup {T \cup {x} : T \in smaller, x \in S}

\* ------------------------------------------------------------ package names
Scope == "@godspeedsystems/"

\* "@godspeedsystems/plugins"
PluginPrefix == <<Scope, "plugins">>

\* "plugins-"
NameSeparator == <<"plugins", "-">>

\* strings.HasPrefix
HasPrefix(name, prefix) == IsPrefixSeq(prefix, name)

PluginId(short) == <<Scope, "plugins", "-", short>>

MongoPlugin  == PluginId("mongo-as-datastore")
PrismaPlugin == PluginId("prisma-as-datastore")
KafkaPlugin  == PluginId("kafka-as-eventsource")
LegacyPlugin == PluginId("mongo-legacy")
BrokenPlugin == PluginId("broken")
NamelessPlugin == PluginId("nameless")
UnconfiguredPlugin == PluginId("unconfigured")

\* the plugin packages that exist in the registry
PluginIds ==
    {MongoPlugin, PrismaPlugin, KafkaPlugin, LegacyPlugin, BrokenPlugin,
     NamelessPlugin, UnconfiguredPlugin}

\* the plugins the catalogs list
CatalogIds == {MongoPlugin, PrismaPlugin, KafkaPlugin}

\* the empty string: no plugin name on the command line
NoName == <<>>

\* ------------------------------------------------------------ module types
ModuleTypeDS == "DS"

ModuleTypeES == "ES"

ModuleTypeBoth == "BOTH"

\* a JavaScript export that is undefined; JSON.stringify drops the key
Undefined == "undefined"

\* what each published plugin module exports
ModuleExports(pluginName) ==
    CASE pluginName = MongoPlugin ->
           [SourceType |-> ModuleTypeBoth, Type |-> "mongo",
            CONFIG_FILE_NAME |-> "mongo-cfg", DEFAULT_CONFIG |-> [uri |-> "x"]]
      [] pluginName = PrismaPlugin ->
           [SourceType |-> ModuleTypeDS, Type |-> "prisma",
            CONFIG_FILE_NAME |-> "prisma", DEFAULT_CONFIG |-> <<>>]
      [] pluginName = KafkaPlugin ->
           [SourceType |-> ModuleTypeES, Type |-> "kafka",
            CONFIG_FILE_NAME |-> "kafka", DEFAULT_CONFIG |-> [type |-> "custom", brokers |-> "b"]]
      [] pluginName = LegacyPlugin ->
           [SourceType |-> ModuleTypeDS, Type |-> "mongo",
            CONFIG_FILE_NAME |-> "mongo-cfg", DEFAULT_CONFIG |-> <<>>]
      [] pluginName = NamelessPlugin ->
           [SourceType |-> ModuleTypeDS, Type |-> Undefined,
            CONFIG_FILE_NAME |-> "nameless", DEFAULT_CONFIG |-> <<>>]
      [] pluginName = UnconfiguredPlugin ->
           [SourceType |-> ModuleTypeES, Type |-> "bare",
            CONFIG_FILE_NAME |-> Undefined, DEFAULT_CONFIG |-> <<>>]
      [] OTHER ->
           [SourceType |-> Undefined, Type |-> "broken",
            CONFIG_FILE_NAME |-> "broken", DEFAULT_CONFIG |-> <<>>]

\* a string field of the JSON the node script prints: a dropped key
\* unmarshals to the zero value ""
JsonString(v) == IF v = Undefined THEN "" ELSE v

\* getModuleInfo: nodeOk is whether the node child process exits with 0
\* (the package loads) and prints parseable JSON
getModuleInfo(pluginName, nodeOk) ==
    IF ~nodeOk \/ pluginName \notin PluginIds
    THEN [err |-> TRUE, moduleType |-> "", loaderFileName |-> "",
          yamlFileName |-> "", defaultConfig |-> <<>>]
    ELSE LET m == ModuleExports(pluginName)
         IN  [err |-> FALSE,
              moduleType     |-> JsonString(m.SourceType),
              loaderFileName |-> JsonString(m.Type),
              yamlFileName   |-> JsonString(m.CONFIG_FILE_NAME),
              defaultConfig  |-> m.DEFAULT_CONFIG]

\* -------------------------------------------------------------- file system
\* a path is a directory (sequence of components) and a file name
\* (base, extension); a directory itself has the empty file name
FilePath(dir, base, ext) == [dir |-> dir, file |-> <<base, ext>>]

DirPath(dir) == [dir |-> dir, file |-> <<>>]

\* what the file system holds, and the trace of what was done to it
Logged(fs, e) == [fs EXCEPT !.log = Append(@, e)]

Event(ev, id, path, ok) == [ev |-> ev, id |-> id, path |-> path, ok |-> ok, batch |-> <<>>]

NpmEvent(verb, plugins, ok) ==
    [ev |-> verb, id |-> NoName, path |-> DirPath(<<>>), ok |-> ok, batch |-> plugins]

\* what os.Stat finds at a path
StatOutcomes == {"file", "dir", "notexist"}

\* os.Stat of a file path in the project tree
Stat(fs, path) == IF path \in DOMAIN fs.files THEN "file" ELSE "notexist"

\* os.Stat of a directory path in the project tree
StatDir(fs, dir) == IF dir \in fs.dirs THEN "dir" ELSE "notexist"

\* utils.FileExists, from the outcome of its os.Stat
FileExists(st) == IF st = "notexist" THEN FALSE ELSE st # "dir"

\* utils.DirExists, from the outcome of its os.Stat
DirExists(st) == IF st = "notexist" THEN FALSE ELSE st = "dir"

\* os.MkdirAll creates the directory and every missing parent
Parents(dir) == {SubSeq(dir, 1, i) : i \in 1..Len(dir)}

\* utils.CreateDir
CreateDir(fs, id, dir, ioFail) ==
    IF DirExists(StatDir(fs, dir))
    THEN [fs |-> fs, err |-> FALSE]
    ELSE IF DirPath(dir) \in ioFail
         THEN [fs |-> Logged(fs, Event("mkdir", id, DirPath(dir), FALSE)), err |-> TRUE]
         ELSE [fs |-> [Logged(fs, Event("mkdir", id, DirPath(dir), TRUE))
                          EXCEPT !.dirs = @ \cup Parents(dir)],
               err |-> FALSE]

\* ioutil.WriteFile that opens the file for appending
WriteFile_Appends(fs, id, path, data, ioFail) ==
    IF path \in ioFail
    THEN [fs |-> Logged(fs, Event("write", id, path, FALSE)), err |-> TRUE]
    ELSE [fs |-> [Logged(fs, Event("write", id, path, TRUE))
                     EXCEPT !.files =
                       (path :> (IF path \in DOMAIN @ THEN @[path] ELSE <<>>) \o data) @@ @],
          err |-> FALSE]

\* ioutil.WriteFile: creates or replaces the file; a failing call (the file
\* cannot be opened for writing) leaves the path as it was
WriteFile(fs, id, path, data, ioFail) ==
    IF path \in ioFail
    THEN [fs |-> Logged(fs, Event("write", id, path, FALSE)), err |-> TRUE]
    ELSE [fs |-> [Logged(fs, Event("write", id, path, TRUE))
                     EXCEPT !.files = (path :> data) @@ @],
          err |-> FALSE]

\* os.Remove: fails on a path that does not exist
osRemove(fs, id, path, ioFail) ==
    IF path \in ioFail \/ path \notin DOMAIN fs.files
    THEN [fs |-> Logged(fs, Event("remove", id, path, FALSE)), err |-> TRUE]
    ELSE [fs |-> [Logged(fs, Event("remove", id, path, TRUE))
                     EXCEPT !.files = [q \in DOMAIN @ \ {path} |-> @[q]]],
          err |-> FALSE]

\* ---------------------------------------------------------- generated files
EventSourcesDir == <<"src", "eventsources">>

DataSourcesDir == <<"src", "datasources">>

\* filepath.Join(dir, "types")
TypesDir(dir) == Append(dir, "types")

\* the type stub: the template with the plugin name filled in
tsContent(kind, pluginName) ==
    << <<"import", kind>>, <<"from">> \o pluginName, <<"export", "default", kind>> >>

\* MergeConfig with the two assignments in the other order
MergeConfig_TypeLast(loaderFileName, defaultConfig) ==
    [k \in {"type"} \cup DOMAIN defaultConfig |->
        IF k = "type" THEN loaderFileName ELSE defaultConfig[k]]

\* {type: loaderFileName}, then every defaultConfig entry assigned over it
MergeConfig(loaderFileName, defaultConfig) ==
    [k \in {"type"} \cup DOMAIN defaultConfig |->
        IF k \in DOMAIN defaultConfig THEN defaultConfig[k] ELSE loaderFileName]

\* the keys that occur in configurations, in the sorted order yaml.Marshal
\* writes the keys of a map
YamlKeyOrder == <<"brokers", "type", "uri">>

\* yaml.Marshal of a map of strings: one "key: value" line per key, sorted
yamlMarshal(config) ==
    LET keep == {i \in DOMAIN YamlKeyOrder : YamlKeyOrder[i] \in DOMAIN config}
        keys == SelectIdx(YamlKeyOrder, keep)
    IN  [i \in DOMAIN keys |-> <<keys[i], config[keys[i]]>>]

\* if err != nil { return err }: the next call runs on what a successful
\* call left
Then(r, Step(_)) == IF r.err THEN r ELSE Step(r.fs)

\* return nil
Ok(fs) == [fs |-> fs, err |-> FALSE]

\* createEventSourceFiles
createEventSourceFiles(fs, pluginName, loaderFileName, yamlFileName, defaultConfig, ioFail) ==
    LET typesDir == TypesDir(EventSourcesDir)
        tsPath == FilePath(typesDir, loaderFileName, "ts")
        yamlData == yamlMarshal(MergeConfig(loaderFileName, defaultConfig))
        yamlPath == FilePath(EventSourcesDir, yamlFileName, "yaml")
        writeTs(g) == WriteFile(g, pluginName, tsPath, tsContent("EventSource", pluginName), ioFail)
        writeYaml(g) == WriteFile(g, pluginName, yamlPath, yamlData, ioFail)
    IN  Then(Then(CreateDir(fs, pluginName, typesDir, ioFail), writeTs), writeYaml)

\* createDataSourceFiles: no config file for the prisma loader
createDataSourceFiles(fs, pluginName, loaderFileName, yamlFileName, defaultConfig, ioFail) ==
    LET typesDir == TypesDir(DataSourcesDir)
        tsPath == FilePath(typesDir, loaderFileName, "ts")
        yamlData == yamlMarshal(MergeConfig(loaderFileName, defaultConfig))
        yamlPath == FilePath(DataSourcesDir, yamlFileName, "yaml")
        writeTs(g) == WriteFile(g, pluginName, tsPath, tsContent("DataSource", pluginName), ioFail)
        writeYaml(g) == IF loaderFileName = "prisma" THEN Ok(g)
                        ELSE WriteFile(g, pluginName, yamlPath, yamlData, ioFail)
    IN  Then(Then(CreateDir(fs, pluginName, typesDir, ioFail), writeTs), writeYaml)

\* createByModuleType that leaves out the data source of a module of both
\* types
createByModuleType_SkipsDataSource(fs, pluginName, m, ioFail) ==
    LET f == Logged(fs, Event("resolve", pluginName, DirPath(<<>>), ~m.err))
        es(g) == createEventSourceFiles(g, pluginName, m.loaderFileName, m.yamlFileName,
                                        m.defaultConfig, ioFail)
        ds(g) == createDataSourceFiles(g, pluginName, m.loaderFileName, m.yamlFileName,
                                       m.defaultConfig, ioFail)
    IN  IF m.err THEN [fs |-> f, err |-> TRUE]
        ELSE CASE m.moduleType = ModuleTypeBoth -> es(f)
               [] m.moduleType = ModuleTypeDS -> ds(f)
               [] m.moduleType = ModuleTypeES -> es(f)
               [] OTHER -> [fs |-> f, err |-> TRUE]

\* createPluginFiles that takes back the event-source files of a module of
\* both types when its data-source files fail
createByModuleType_RollsBack(fs, pluginName, m, ioFail) ==
    LET f == Logged(fs, Event("resolve", pluginName, DirPath(<<>>), ~m.err))
        es(g) == createEventSourceFiles(g, pluginName, m.loaderFileName, m.yamlFileName,
                                        m.defaultConfig, ioFail)
        ds(g) == createDataSourceFiles(g, pluginName, m.loaderFileName, m.yamlFileName,
                                       m.defaultConfig, ioFail)
        undo(r) == IF r.err
                   THEN [fs |-> osRemove(osRemove(r.fs, pluginName,
                                                  FilePath(TypesDir(EventSourcesDir),
                                                           m.loaderFileName, "ts"), {}).fs,
                                         pluginName,
                                         FilePath(EventSourcesDir, m.yamlFileName, "yaml"),
                                         {}).fs,
                         err |-> TRUE]
                   ELSE r
        both(r) == IF r.err THEN r ELSE undo(ds(r.fs))
    IN  IF m.err THEN [fs |-> f, err |-> TRUE]
        ELSE CASE m.moduleType = ModuleTypeBoth -> both(es(f))
               [] m.moduleType = ModuleTypeDS -> ds(f)
               [] m.moduleType = ModuleTypeES -> es(f)
               [] OTHER -> [fs |-> f, err |-> TRUE]

\* createPluginFiles, from the switch on: m is what getModuleInfo returned
createByModuleType(fs, pluginName, m, ioFail) ==
    LET f == Logged(fs, Event("resolve", pluginName, DirPath(<<>>), ~m.err))
        es(g) == createEventSourceFiles(g, pluginName, m.loaderFileName, m.yamlFileName,
                                        m.defaultConfig, ioFail)
        ds(g) == createDataSourceFiles(g, pluginName, m.loaderFileName, m.yamlFileName,
                                       m.defaultConfig, ioFail)
    IN  IF m.err THEN [fs |-> f, err |-> TRUE]
        ELSE CASE m.moduleType = ModuleTypeBoth -> Then(es(f), ds)
               [] m.moduleType = ModuleTypeDS -> ds(f)
               [] m.moduleType = ModuleTypeES -> es(f)
               [] OTHER -> [fs |-> f, err |-> TRUE]

\* createPluginFiles: nodeFail is the set of plugins whose module does not
\* load, ioFail the set of paths on which a file-system call fails
createPluginFiles(fs, pluginName, nodeFail, ioFail) ==
    createByModuleType(fs, pluginName,
                       getModuleInfo(pluginName, pluginName \notin nodeFail), ioFail)

\* removeIfExists without the check
removeIfExists_NoCheck(fs, id, path, ioFail) == osRemove(fs, id, path, ioFail)

\* if utils.FileExists(path) { os.Remove(path) }
removeIfExists(fs, id, path, ioFail) ==
    IF FileExists(Stat(fs, path)) THEN osRemove(fs, id, path, ioFail) ELSE Ok(fs)

\* removeEventSourceFiles that forgets the config file
removeEventSourceFiles_KeepsConfig(fs, pluginName, loaderFileName, yamlFileName, ioFail) ==
    removeIfExists(fs, pluginName,
                   FilePath(TypesDir(EventSourcesDir), loaderFileName, "ts"), ioFail)

\* removeEventSourceFiles
removeEventSourceFiles(fs, pluginName, loaderFileName, yamlFileName, ioFail) ==
    LET tsPath == FilePath(TypesDir(EventSourcesDir), loaderFileName, "ts")
        yamlPath == FilePath(EventSourcesDir, yamlFileName, "yaml")
        removeYaml(g) == removeIfExists(g, pluginName, yamlPath, ioFail)
    IN  Then(removeIfExists(fs, pluginName, tsPath, ioFail), removeYaml)

\* removeDataSourceFiles without the exception for the prisma loader
removeDataSourceFiles_RemovesPrismaConfig(fs, pluginName, loaderFileName, yamlFileName, ioFail) ==
    LET tsPath == FilePath(TypesDir(DataSourcesDir), loaderFileName, "ts")
        yamlPath == FilePath(DataSourcesDir, yamlFileName, "yaml")
        removeYaml(g) == removeIfExists(g, pluginName, yamlPath, ioFail)
    IN  Then(removeIfExists(fs, pluginName, tsPath, ioFail), removeYaml)

\* removeDataSourceFiles: the config file of the prisma loader is left alone
removeDataSourceFiles(fs, pluginName, loaderFileName, yamlFileName, ioFail) ==
    LET tsPath == FilePath(TypesDir(DataSourcesDir), loaderFileName, "ts")
        yamlPath == FilePath(DataSourcesDir, yamlFileName, "yaml")
        removeYaml(g) == IF loaderFileName = "prisma" THEN Ok(g)
                         ELSE removeIfExists(g, pluginName, yamlPath, ioFail)
    IN  Then(removeIfExists(fs, pluginName, tsPath, ioFail), removeYaml)

\* removePluginFiles whose switch treats an unknown module type as a data
\* source
removeByModuleType_DefaultsToDataSource(fs, pluginName, m, ioFail) ==
    LET f == Logged(fs, Event("resolve", pluginName, DirPath(<<>>), ~m.err))
        es(g) == removeEventSourceFiles(g, pluginName, m.loaderFileName, m.yamlFileName, ioFail)
        ds(g) == removeDataSourceFiles(g, pluginName, m.loaderFileName, m.yamlFileName, ioFail)
    IN  IF m.err THEN [fs |-> f, err |-> TRUE]
        ELSE CASE m.moduleType = ModuleTypeBoth -> Then(es(f), ds)
               [] m.moduleType = ModuleTypeES -> es(f)
               [] OTHER -> ds(f)

\* removePluginFiles, from the switch on: m is what getModuleInfo returned
removeByModuleType(fs, pluginName, m, ioFail) ==
    LET f == Logged(fs, Event("resolve", pluginName, DirPath(<<>>), ~m.err))
        es(g) == removeEventSourceFiles(g, pluginName, m.loaderFileName, m.yamlFileName, ioFail)
        ds(g) == removeDataSourceFiles(g, pluginName, m.loaderFileName, m.yamlFileName, ioFail)
    IN  IF m.err THEN [fs |-> f, err |-> TRUE]
        ELSE CASE m.moduleType = ModuleTypeBoth -> Then(es(f), ds)
               [] m.moduleType = ModuleTypeDS -> ds(f)
               [] m.moduleType = ModuleTypeES -> es(f)
               [] OTHER -> [fs |-> f, err |-> TRUE]

\* removePluginFiles
removePluginFiles(fs, pluginName, nodeFail, ioFail) ==
    removeByModuleType(fs, pluginName,
                       getModuleInfo(pluginName, pluginName \notin nodeFail), ioFail)

\* --------------------------------------------------------- package manager
\* the version range npm records for a newly installed package
InstalledVersion == "^1.0.0"

\* the version range npm records after an update
UpdatedVersion == "^2.0.0"

\* npm install <plugins...>: all or nothing
NpmInstall(deps, plugins) ==
    [n \in DOMAIN deps \cup Range(plugins) |->
        IF n \in DOMAIN deps THEN deps[n] ELSE InstalledVersion]

\* npm uninstall <plugins...>
NpmUninstall(deps, plugins) == [n \in DOMAIN deps \ Range(plugins) |-> deps[n]]

\* npm update <plugins...>
NpmUpdate(deps, plugins) ==
    [n \in DOMAIN deps |-> IF n \in Range(plugins) THEN UpdatedVersion ELSE deps[n]]

Report(fs, pluginName) == Logged(fs, Event("report", pluginName, DirPath(<<>>), FALSE))

\* if err := ...; err != nil { color.Red(...) }: c is what the call returned
Reported(c, pluginName) == IF c.err THEN Report(c.fs, pluginName) ELSE c.fs

\* Reported for a loop that an error ends
ReportedStop(c, pluginName) == [fs |-> Reported(c, pluginName), stop |-> c.err]

\* installPlugins that does not return when npm fails
installPlugins_IgnoresNpmError(fs, deps, plugins, npmOk, nodeFail, ioFail) ==
    LET n == Logged(fs, NpmEvent("install", plugins, npmOk))
        F[i \in 0..Len(plugins)] ==
          IF i = 0 THEN n
          ELSE Reported(createPluginFiles(F[i-1], plugins[i], nodeFail, ioFail), plugins[i])
    IN  IF Len(plugins) = 0 THEN [fs |-> fs, deps |-> deps, outcome |-> "EmptyBatch"]
        ELSE IF ~npmOk
        THEN [fs |-> F[Len(plugins)], deps |-> deps, outcome |-> "PackageOperationFailed"]
        ELSE [fs |-> F[Len(plugins)], deps |-> NpmInstall(deps, plugins), outcome |-> "Done"]

\* installPlugins that returns at the first plugin whose files fail
installPlugins_StopsAtFirstError(fs, deps, plugins, npmOk, nodeFail, ioFail) ==
    LET n == Logged(fs, NpmEvent("install", plugins, npmOk))
        F[i \in 0..Len(plugins)] ==
          IF i = 0 THEN [fs |-> n, stop |-> FALSE]
          ELSE IF F[i-1].stop THEN F[i-1]
          ELSE ReportedStop(createPluginFiles(F[i-1].fs, plugins[i], nodeFail, ioFail), plugins[i])
    IN  IF Len(plugins) = 0 THEN [fs |-> fs, deps |-> deps, outcome |-> "EmptyBatch"]
        ELSE IF ~npmOk THEN [fs |-> n, deps |-> deps, outcome |-> "PackageOperationFailed"]
        ELSE [fs |-> F[Len(plugins)].fs, deps |-> NpmInstall(deps, plugins),
              outcome |-> "Done"]

\* installPlugins: npmOk is whether the npm child process exits with 0
installPlugins(fs, deps, plugins, npmOk, nodeFail, ioFail) ==
    LET n == Logged(fs, NpmEvent("install", plugins, npmOk))
        F[i \in 0..Len(plugins)] ==
          IF i = 0 THEN n
          ELSE Reported(createPluginFiles(F[i-1], plugins[i], nodeFail, ioFail), plugins[i])
    IN  IF Len(plugins) = 0 THEN [fs |-> fs, deps |-> deps, outcome |-> "EmptyBatch"]
        ELSE IF ~npmOk THEN [fs |-> n, deps |-> deps, outcome |-> "PackageOperationFailed"]
        ELSE [fs |-> F[Len(plugins)], deps |-> NpmInstall(deps, plugins), outcome |-> "Done"]

\* removePlugins that runs npm uninstall before it removes the files
removePlugins_UninstallFirst(fs, deps, plugins, npmOk, nodeFail, ioFail) ==
    LET n == Logged(fs, NpmEvent("uninstall", plugins, npmOk))
        F[i \in 0..Len(plugins)] ==
          IF i = 0 THEN n
          ELSE Reported(removePluginFiles(F[i-1], plugins[i], nodeFail, ioFail), plugins[i])
    IN  IF Len(plugins) = 0 THEN [fs |-> fs, deps |-> deps, outcome |-> "EmptyBatch"]
        ELSE IF ~npmOk THEN [fs |-> n, deps |-> deps, outcome |-> "PackageOperationFailed"]
        ELSE [fs |-> F[Len(plugins)], deps |-> NpmUninstall(deps, plugins),
              outcome |-> "Done"]

\* removePlugins that returns at the first plugin whose files fail
removePlugins_StopsAtFirstError(fs, deps, plugins, npmOk, nodeFail, ioFail) ==
    LET F[i \in 0..Len(plugins)] ==
          IF i = 0 THEN [fs |-> fs, stop |-> FALSE]
          ELSE IF F[i-1].stop THEN F[i-1]
          ELSE ReportedStop(removePluginFiles(F[i-1].fs, plugins[i], nodeFail, ioFail), plugins[i])
        last == F[Len(plugins)]
        n == Logged(last.fs, NpmEvent("uninstall", plugins, npmOk))
    IN  IF Len(plugins) = 0 THEN [fs |-> fs, deps |-> deps, outcome |-> "EmptyBatch"]
        ELSE IF last.stop THEN [fs |-> last.fs, deps |-> deps, outcome |-> "Done"]
        ELSE IF ~npmOk THEN [fs |-> n, deps |-> deps, outcome |-> "PackageOperationFailed"]
        ELSE [fs |-> n, deps |-> NpmUninstall(deps, plugins), outcome |-> "Done"]

\* removePlugins
removePlugins(fs, deps, plugins, npmOk, nodeFail, ioFail) ==
    LET F[i \in 0..Len(plugins)] ==
          IF i = 0 THEN fs
          ELSE Reported(removePluginFiles(F[i-1], plugins[i], nodeFail, ioFail), plugins[i])
        n == Logged(F[Len(plugins)], NpmEvent("uninstall", plugins, npmOk))
    IN  IF Len(plugins) = 0 THEN [fs |-> fs, deps |-> deps, outcome |-> "EmptyBatch"]
        ELSE IF ~npmOk THEN [fs |-> n, deps |-> deps, outcome |-> "PackageOperationFailed"]
        ELSE [fs |-> n, deps |-> NpmUninstall(deps, plugins), outcome |-> "Done"]

\* updatePlugins that regenerates the files of the updated plugins
updatePlugins_Regenerates(fs, deps, plugins, npmOk) ==
    LET n == Logged(fs, NpmEvent("update", plugins, npmOk))
        F[i \in 0..Len(plugins)] ==
          IF i = 0 THEN n
          ELSE Reported(createPluginFiles(F[i-1], plugins[i], {}, {}), plugins[i])
    IN  IF Len(plugins) = 0 THEN [fs |-> fs, deps |-> deps, outcome |-> "EmptyBatch"]
        ELSE IF ~npmOk THEN [fs |-> n, deps |-> deps, outcome |-> "PackageOperationFailed"]
        ELSE [fs |-> F[Len(plugins)], deps |-> NpmUpdate(deps, plugins), outcome |-> "Done"]

\* updatePlugins that runs one npm update per plugin
updatePlugins_OnePerPlugin(fs, deps, plugins, npmOk) ==
    LET F[i \in 0..Len(plugins)] ==
          IF i = 0 THEN fs
          ELSE Logged(F[i-1], NpmEvent("update", <<plugins[i]>>, npmOk))
    IN  IF Len(plugins) = 0 THEN [fs |-> fs, deps |-> deps, outcome |-> "EmptyBatch"]
        ELSE IF ~npmOk
        THEN [fs |-> F[Len(plugins)], deps |-> deps, outcome |-> "PackageOperationFailed"]
        ELSE [fs |-> F[Len(plugins)], deps |-> NpmUpdate(deps, plugins), outcome |-> "Done"]

\* updatePlugins
updatePlugins(fs, deps, plugins, npmOk) ==
    LET n == Logged(fs, NpmEvent("update", plugins, npmOk))
    IN  IF Len(plugins) = 0 THEN [fs |-> fs, deps |-> deps, outcome |-> "EmptyBatch"]
        ELSE IF ~npmOk THEN [fs |-> n, deps |-> deps, outcome |-> "PackageOperationFailed"]
        ELSE [fs |-> n, deps |-> NpmUpdate(deps, plugins), outcome |-> "Done"]

\* ------------------------------------------------------------------ catalog
\* the Plugin struct
Plugin(value, name, description) ==
    [Value |-> value, Name |-> name, Description |-> description]

DescriptionOf(id) == IF id = BrokenPlugin THEN "" ELSE "a godspeed plugin"

CatalogEntry(id) == Plugin(id, <<id[Len(id)]>>, DescriptionOf(id))

FullCatalog ==
    <<CatalogEntry(MongoPlugin), CatalogEntry(PrismaPlugin), CatalogEntry(KafkaPlugin)>>

\* assets/plugins_list.json next to the executable: the executable path is
\* unknown, the file cannot be read, it is not a JSON array, or it is a list
Snapshots ==
    {[status |-> st, plugins |-> <<>>] : st \in {"noExecutable", "absent", "malformed"}}
    \cup {[status |-> "ok", plugins |-> l] : l \in {FullCatalog, <<>>}}

\* one entry of the output of npm search
SearchResult(name) == [Name |-> name, Description |-> "a godspeed plugin", Version |-> "1.0.0"]

\* npm search "@godspeedsystems/plugins" --json: the command fails, its output
\* is not a JSON array, or it is a list of results (one of them a package of
\* the scope that is no plugin)
Remotes ==
    {[status |-> st, results |-> <<>>] : st \in {"fail", "malformed"}}
    \cup {[status |-> "ok", results |-> l] :
            l \in {<<SearchResult(MongoPlugin), SearchResult(<<Scope, "plugins">>),
                     SearchResult(KafkaPlugin)>>,
                   <<>>}}

\* the index of the first occurrence of sep in s at or after from, 0 if none
IndexFrom(s, sep, from) ==
    LET hits == {i \in from..(Len(s) - Len(sep) + 1) : SubSeq(s, i, i + Len(sep) - 1) = sep}
    IN  IF hits = {} THEN 0 ELSE CHOOSE i \in hits : \A j \in hits : i <= j

\* strings.Split(s, sep) for a non-empty sep
RECURSIVE Split(_, _)
Split(s, sep) ==
    LET i == IndexFrom(s, sep, 1)
    IN  IF i = 0 THEN <<s>>
        ELSE <<SubSeq(s, 1, i - 1)>> \o Split(SubSeq(s, i + Len(sep), Len(s)), sep)

\* searchPluginsFromNpm
searchPluginsFromNpm(remote) ==
    LET F[i \in 0..Len(remote.results)] ==
          IF i = 0 THEN <<>>
          ELSE LET result == remote.results[i]
                   nameParts == Split(result.Name, NameSeparator)
               IN  IF Len(nameParts) > 1
                   THEN Append(F[i-1], Plugin(result.Name, nameParts[2], result.Description))
                   ELSE F[i-1]
    IN  IF remote.status # "ok" THEN [err |-> TRUE, plugins |-> <<>>]
        ELSE [err |-> FALSE, plugins |-> F[Len(remote.results)]]

\* LoadPluginsList
LoadPluginsList(snapshot, remote) ==
    CASE snapshot.status = "noExecutable" -> [err |-> TRUE, plugins |-> <<>>]
      [] snapshot.status \in {"absent", "unreadable"} -> searchPluginsFromNpm(remote)
      [] snapshot.status = "malformed" -> [err |-> TRUE, plugins |-> <<>>]
      [] OTHER -> [err |-> FALSE, plugins |-> snapshot.plugins]

\* everything LoadPluginsList can return
CatalogOutcomes == {LoadPluginsList(s, r) : s \in Snapshots, r \in Remotes}

\* ---------------------------------------------------------- project context
\* what ioutil.ReadFile and json.Unmarshal make of package.json
ReadOutcomes == {"ok", "unreadable", "malformed"}

\* the directory the command runs in: os.Stat of .godspeed and of
\* package.json, and whether package.json reads and parses
Contexts ==
    {[marker |-> "file", manifest |-> "file", read |-> r] : r \in ReadOutcomes}
    \cup {[marker |-> m, manifest |-> "file", read |-> "ok"] : m \in StatOutcomes}
    \cup {[marker |-> "file", manifest |-> m, read |-> "ok"] : m \in StatOutcomes}

\* utils.IsGodspeedProject
IsGodspeedProject(ctx) ==
    IF ~FileExists(ctx.marker) THEN FALSE
    ELSE IF ~FileExists(ctx.manifest) THEN FALSE
    ELSE TRUE

\* GetInstalledPlugins that returns no error when package.json cannot be
\* read or parsed
GetInstalledPlugins_IgnoresReadError(ctx, deps) ==
    IF ~IsGodspeedProject(ctx) THEN [err |-> TRUE, plugins |-> <<>>]
    ELSE IF ~FileExists(ctx.manifest) THEN [err |-> TRUE, plugins |-> <<>>]
    ELSE [err |-> FALSE,
          plugins |-> [name \in {n \in DOMAIN deps : HasPrefix(n, PluginPrefix)} |-> deps[name]]]

\* GetInstalledPlugins without the filter on the name
GetInstalledPlugins_NoFilter(ctx, deps) ==
    IF ~IsGodspeedProject(ctx) THEN [err |-> TRUE, plugins |-> <<>>]
    ELSE IF ~FileExists(ctx.manifest) THEN [err |-> TRUE, plugins |-> <<>>]
    ELSE IF ctx.read # "ok" THEN [err |-> TRUE, plugins |-> <<>>]
    ELSE [err |-> FALSE, plugins |-> deps]

\* GetInstalledPlugins
GetInstalledPlugins(ctx, deps) ==
    IF ~IsGodspeedProject(ctx) THEN [err |-> TRUE, plugins |-> <<>>]
    ELSE IF ~FileExists(ctx.manifest) THEN [err |-> TRUE, plugins |-> <<>>]
    ELSE IF ctx.read # "ok" THEN [err |-> TRUE, plugins |-> <<>>]
    ELSE [err |-> FALSE,
          plugins |-> [name \in {n \in DOMAIN deps : HasPrefix(n, PluginPrefix)} |-> deps[name]]]

\* ------------------------------------------------------------- orchestrator
\* fmt.Sprintf("%s - %s", name, description)
DisplayName(name, description) == name \o <<" - ", description>>

\* MissingPlugins without the filter
MissingPlugins_All(availablePlugins, installedPlugins) == availablePlugins

\* Add: the catalog entries that are not installed, in catalog order
MissingPlugins(availablePlugins, installedPlugins) ==
    SelectIdx(availablePlugins,
              {i \in DOMAIN availablePlugins :
                  availablePlugins[i].Value \notin DOMAIN installedPlugins})

\* Add: the options of the multi-selection
AddOptions(missingPlugins) ==
    [i \in DOMAIN missingPlugins |->
        DisplayName(missingPlugins[i].Name, missingPlugins[i].Description)]

\* Add: optionsMap, filled in list order, so the last entry of a display
\* name is the one kept
AddOptionsMap(missingPlugins) ==
    LET options == AddOptions(missingPlugins)
    IN  [d \in Range(options) |->
            missingPlugins[CHOOSE i \in DOMAIN options :
                              /\ options[i] = d
                              /\ \A j \in DOMAIN options : options[j] = d => j <= i].Value]

\* AddNamed without the look-up in the installed set
AddNamed_NoInstalledCheck(availablePlugins, installedPlugins, pluginName) ==
    LET found == \E i \in DOMAIN availablePlugins : availablePlugins[i].Value = pluginName
    IN  IF ~found THEN "UnknownPlugin" ELSE "install"

\* AddNamed without the look-up in the catalog
AddNamed_NoCatalogCheck(availablePlugins, installedPlugins, pluginName) ==
    IF pluginName \in DOMAIN installedPlugins THEN "AlreadyInstalled" ELSE "install"

\* Add with a plugin name: what the lookups decide
AddNamed(availablePlugins, installedPlugins, pluginName) ==
    LET found == \E i \in DOMAIN availablePlugins : availablePlugins[i].Value = pluginName
    IN  IF ~found THEN "UnknownPlugin"
        ELSE IF pluginName \in DOMAIN installedPlugins THEN "AlreadyInstalled"
        ELSE "install"

\* RemoveCheck that takes a given name as installed
RemoveCheck_NoMembership(installedPlugins, pluginName) ==
    IF Cardinality(DOMAIN installedPlugins) = 0 THEN "NothingInstalled"
    ELSE IF pluginName # NoName THEN "remove"
    ELSE "select"

\* Remove: what the checks on the installed set decide
RemoveCheck(installedPlugins, pluginName) ==
    IF Cardinality(DOMAIN installedPlugins) = 0 THEN "NothingInstalled"
    ELSE IF pluginName # NoName
         THEN IF pluginName \notin DOMAIN installedPlugins THEN "NotInstalled" ELSE "remove"
         ELSE "select"

\* the paths a batch can touch: per plugin and role of its descriptor, the
\* types directory, the stub and the config file
IoTargets(plugins) ==
    UNION {LET m == getModuleInfo(id, TRUE)
               es == {DirPath(TypesDir(EventSourcesDir)),
                      FilePath(TypesDir(EventSourcesDir), m.loaderFileName, "ts"),
                      FilePath(EventSourcesDir, m.yamlFileName, "yaml")}
               ds == {DirPath(TypesDir(DataSourcesDir)),
                      FilePath(TypesDir(DataSourcesDir), m.loaderFileName, "ts")}
                     \cup (IF m.loaderFileName = "prisma" THEN {}
                           ELSE {FilePath(DataSourcesDir, m.yamlFileName, "yaml")})
           IN  (IF m.moduleType \in {ModuleTypeES, ModuleTypeBoth} THEN es ELSE {})
               \cup (IF m.moduleType \in {ModuleTypeDS, ModuleTypeBoth} THEN ds ELSE {})
           : id \in plugins}

\* the file system as a function finds it, with an empty trace
Fs == [files |-> files, dirs |-> dirs, log |-> <<>>]

\* the directory a command runs in and the project tree it finds there;
\* queries is the trace of what the handler has loaded (the catalog, the
\* manifest)
Found(ctx) == [files |-> files, dirs |-> dirs, log |-> <<>>, queries |-> <<>>, ctx |-> ctx]

\* LoadPluginsList ("catalog") or GetInstalledPlugins ("manifest") was called
\* and returned r
Queried(fs, what, r) == [fs EXCEPT !.queries = Append(@, [what |-> what, ok |-> ~r.err])]

\* the operation returns: what it did, and how it ended
Finish(op, arg, outcome, available, offered, batch, fs, deps) ==
    /\ dependencies' = deps
    /\ files' = fs.files
    /\ dirs' = fs.dirs
    /\ lastOp' = [op |-> op, arg |-> arg, outcome |-> outcome, available |-> available,
                  offered |-> offered, batch |-> batch, log |-> fs.log,
                  queries |-> fs.queries, ctx |-> fs.ctx]
    /\ ops' = ops + 1

\* a command can start: the last one has ended, and the bound on the number
\* of commands is not reached
Ready == lastOp.op = "none" /\ ops < MaxOps

\* the operation returns before it has done anything: fs is the file system
\* as found, with the trace of what was loaded
Abort(op, arg, outcome, available, offered, fs) ==
    Finish(op, arg, outcome, available, offered, <<>>, fs, dependencies)

\* survey.AskOne has returned answer: an error or the ticked options
Prompted(fs, answer) ==
    Logged(fs, [ev |-> "prompt", id |-> NoName, path |-> DirPath(<<>>),
                ok |-> ~answer.err, batch |-> answer.selected])

\* AbortPrompted that hands the selection to npm install
AbortPrompted_Installs(op, arg, outcome, available, offered, fs, answer) ==
    Finish(op, arg, outcome, available, offered, <<>>,
           Logged(Prompted(fs, answer), NpmEvent("install", answer.selected, TRUE)),
           dependencies)

\* the operation returns after the multi-selection, without a batch
AbortPrompted(op, arg, outcome, available, offered, fs, answer) ==
    Finish(op, arg, outcome, available, offered, <<>>, Prompted(fs, answer), dependencies)

Values(plugins) == [i \in DOMAIN plugins |-> plugins[i].Value]

\* what the child processes and the file system do during one batch: npm
\* fails, or it succeeds and at most MaxFail of the node processes and of the
\* paths of the batch fail
Environments(plugins) ==
    {[npmOk |-> FALSE, nodeFail |-> {}, ioFail |-> {}]}
    \cup UNION {{[npmOk |-> TRUE, nodeFail |-> nf, ioFail |-> io] :
                    io \in SmallSubsets(IoTargets(Range(plugins) \ nf),
                                        MaxFail - Cardinality(nf))} :
                 nf \in SmallSubsets(Range(plugins), MaxFail)}

\* the operation returns from its batch: r is what the batch did
FinishBatch(op, arg, available, offered, plugins, r) ==
    Finish(op, arg, r.outcome, available, offered, plugins, r.fs, r.deps)

\* the three batch operations run with every outcome of the npm child
\* process, of the node child processes and of the file-system calls
RunInstall(op, arg, available, offered, fs, plugins) ==
    \E env \in Environments(plugins) :
        FinishBatch(op, arg, available, offered, plugins,
                    installPlugins(fs, dependencies, plugins,
                                   env.npmOk, env.nodeFail, env.ioFail))

RunRemove(op, arg, available, offered, fs, plugins) ==
    \E env \in Environments(plugins) :
        FinishBatch(op, arg, available, offered, plugins,
                    removePlugins(fs, dependencies, plugins,
                                  env.npmOk, env.nodeFail, env.ioFail))

RunUpdate(op, arg, available, offered, fs, plugins) ==
    \E npmOk \in BOOLEAN :
        FinishBatch(op, arg, available, offered, plugins,
                    updatePlugins(fs, dependencies, plugins, npmOk))

\* survey.AskOne on a MultiSelect: an error (the prompt is interrupted), or
\* the ticked options in the order of the list
Answers(options) ==
    {[err |-> TRUE, selected |-> <<>>]}
    \cup {[err |-> FALSE, selected |-> SelectIdx(options, ticked)] :
            ticked \in SmallSubsets(DOMAIN options, MaxBatch)}

\* the same over options taken from ranging over a map, whose order is
\* arbitrary
AnswersAnyOrder(options) ==
    {[err |-> TRUE, selected |-> <<>>]}
    \cup {[err |-> FALSE, selected |-> sel] : sel \in Arrangements(options, MaxBatch)}

\* plugin add [name]
Add(pluginName) ==
    /\ Ready
    /\ \E ctx \in Contexts :
      IF ~IsGodspeedProject(ctx) THEN Abort("add", pluginName, "NotAProject", <<>>, {}, Found(ctx))
      ELSE \E cat \in CatalogOutcomes :
        LET availablePlugins == cat.plugins
            inst == GetInstalledPlugins(ctx, dependencies)
            installedPlugins == inst.plugins
            missingPlugins == MissingPlugins(availablePlugins, installedPlugins)
            options == AddOptions(missingPlugins)
            optionsMap == AddOptionsMap(missingPlugins)
            available == Values(availablePlugins)
            offered == Range(Values(missingPlugins))
            loaded == Queried(Found(ctx), "catalog", cat)
            read == Queried(loaded, "manifest", inst)
        IN  IF cat.err
            THEN Abort("add", pluginName, "CatalogUnavailable", <<>>, {}, loaded)
            ELSE IF inst.err
            THEN Abort("add", pluginName, "ManifestUnreadable", available, {}, read)
            ELSE IF pluginName = NoName
            THEN IF Len(missingPlugins) = 0
                 THEN Abort("add", pluginName, "AllInstalled", available, {}, read)
                 ELSE \E answer \in Answers(options) :
                        LET selectedPlugins == answer.selected
                            pluginsToInstall ==
                              [i \in DOMAIN selectedPlugins |-> optionsMap[selectedPlugins[i]]]
                        IN  IF answer.err
                            THEN AbortPrompted("add", pluginName, "PromptError",
                                               available, offered, read, answer)
                            ELSE IF Len(selectedPlugins) = 0
                            THEN AbortPrompted("add", pluginName, "NothingSelected",
                                               available, offered, read, answer)
                            ELSE RunInstall("add", pluginName, available, offered,
                                            Prompted(read, answer), pluginsToInstall)
            ELSE LET decision == AddNamed(availablePlugins, installedPlugins, pluginName)
                 IN  IF decision = "install"
                     THEN RunInstall("add", pluginName, available, {}, read, <<pluginName>>)
                     ELSE Abort("add", pluginName, decision, available, {}, read)

\* plugin remove [name]: the options come from ranging over a map, so the
\* selection can come back in any order
Remove(pluginName) ==
    /\ Ready
    /\ \E ctx \in Contexts :
      IF ~IsGodspeedProject(ctx)
      THEN Abort("remove", pluginName, "NotAProject", <<>>, {}, Found(ctx))
      ELSE
        LET inst == GetInstalledPlugins(ctx, dependencies)
            installedPlugins == inst.plugins
            check == RemoveCheck(installedPlugins, pluginName)
            offered == DOMAIN installedPlugins
            read == Queried(Found(ctx), "manifest", inst)
        IN  IF inst.err
            THEN Abort("remove", pluginName, "ManifestUnreadable", <<>>, {}, read)
            ELSE IF check = "remove"
            THEN RunRemove("remove", pluginName, <<>>, {}, read, <<pluginName>>)
            ELSE IF check = "select"
            THEN \E catErr \in {cat.err : cat \in CatalogOutcomes} :
                   IF catErr
                   THEN Abort("remove", pluginName, "CatalogUnavailable", <<>>, {},
                              Queried(read, "catalog", [err |-> catErr]))
                   ELSE \E answer \in AnswersAnyOrder(offered) :
                          LET pluginsToRemove == answer.selected
                              loaded == Queried(read, "catalog", [err |-> catErr]) IN
                          IF answer.err
                          THEN AbortPrompted("remove", pluginName, "PromptError",
                                             <<>>, offered, loaded, answer)
                          ELSE IF Len(pluginsToRemove) = 0
                          THEN AbortPrompted("remove", pluginName, "NothingSelected",
                                             <<>>, offered, loaded, answer)
                          ELSE RunRemove("remove", pluginName, <<>>, offered,
                                         Prompted(loaded, answer), pluginsToRemove)
            ELSE Abort("remove", pluginName, check, <<>>, {}, read)

\* plugin update
Update ==
    /\ Ready
    /\ \E ctx \in Contexts :
      IF ~IsGodspeedProject(ctx) THEN Abort("update", NoName, "NotAProject", <<>>, {}, Found(ctx))
      ELSE
        LET inst == GetInstalledPlugins(ctx, dependencies)
            installedPlugins == inst.plugins
            offered == DOMAIN installedPlugins
            read == Queried(Found(ctx), "manifest", inst)
        IN  IF inst.err THEN Abort("update", NoName, "ManifestUnreadable", <<>>, {}, read)
            ELSE IF Cardinality(DOMAIN installedPlugins) = 0
            THEN Abort("update", NoName, "NothingInstalled", <<>>, {}, read)
            ELSE \E catErr \in {cat.err : cat \in CatalogOutcomes} :
                   IF catErr
                   THEN Abort("update", NoName, "CatalogUnavailable", <<>>, {},
                              Queried(read, "catalog", [err |-> catErr]))
                   ELSE \E answer \in AnswersAnyOrder(offered) :
                          LET pluginsToUpdate == answer.selected
                              loaded == Queried(read, "catalog", [err |-> catErr]) IN
                          IF answer.err
                          THEN AbortPrompted("update", NoName, "PromptError",
                                             <<>>, offered, loaded, answer)
                          ELSE IF Len(pluginsToUpdate) = 0
                          THEN AbortPrompted("update", NoName, "NothingSelected",
                                             <<>>, offered, loaded, answer)
                          ELSE RunUpdate("update", NoName, <<>>, offered,
                                         Prompted(loaded, answer), pluginsToUpdate)

\* no command is running and nothing is remembered of the last one
NoCommand ==
    [op |-> "none", arg |-> NoName, outcome |-> "none", available |-> <<>>,
     offered |-> {}, batch |-> <<>>, log |-> <<>>, queries |-> <<>>, ctx |-> <<>>]

\* main returns and the process ends: the next command finds the manifest and
\* the files, and nothing else
Exit ==
    /\ lastOp.op # "none"
    /\ lastOp' = NoCommand
    /\ UNCHANGED <<dependencies, files, dirs, ops>>

\* rootCmd.Execute: the Run closures of the plugin commands return nothing,
\* so no outcome of a handler comes back as an error
Execute(outcome) == [err |-> FALSE]

\* main: os.Exit(1) if Execute returns an error, and the return from main
\* otherwise
ExitStatus(outcome) == IF Execute(outcome).err THEN 1 ELSE 0

\* ------------------------------------------------------------ specification
\* a dependency of the project that is no plugin
ExpressPackage == <<"express">>

\* the names a user can type: none, a plugin, or something else
Names == CatalogIds \cup {NoName, ExpressPackage}

\* a freshly scaffolded project: no plugin installed, nothing generated
Init ==
    /\ dependencies = (ExpressPackage :> "^4.18.0")
    /\ files = <<>>
    /\ dirs = {<<"src">>}
    /\ ops = 0
    /\ lastOp = NoCommand

Next ==
    \/ \E pluginName \in Names : Add(pluginName)
    \/ \E pluginName \in Names : Remove(pluginName)
    \/ Update
    \/ Exit

Spec == Init /\ [][Next]_vars

\* ------------------------------------------------------ vocabulary of claims
\* the installed set: the dependencies in the plugin namespace
InstalledSet(deps) == {n \in DOMAIN deps : HasPrefix(n, PluginPrefix)}

\* the files a plugin's descriptor calls for: stub and config per role, and
\* no config under the data-source tree for the prisma loader
ArtifactPaths(id) ==
    LET m == getModuleInfo(id, TRUE)
        es == {FilePath(TypesDir(EventSourcesDir), m.loaderFileName, "ts"),
               FilePath(EventSourcesDir, m.yamlFileName, "yaml")}
        ds == {FilePath(TypesDir(DataSourcesDir), m.loaderFileName, "ts")}
              \cup (IF m.loaderFileName = "prisma" THEN {}
                    ELSE {FilePath(DataSourcesDir, m.yamlFileName, "yaml")})
    IN  (IF m.moduleType \in {ModuleTypeES, ModuleTypeBoth} THEN es ELSE {})
        \cup (IF m.moduleType \in {ModuleTypeDS, ModuleTypeBoth} THEN ds ELSE {})

\* installed with all its artifacts, or not installed and none of them
Consistent(deps, fls, id) ==
    \/ id \in DOMAIN deps /\ ArtifactPaths(id) \subseteq DOMAIN fls
    \/ id \notin DOMAIN deps /\ ArtifactPaths(id) \cap DOMAIN fls = {}

\* the plugins of the catalogs that share no artifact path with another one
OwnPathPlugins ==
    {id \in CatalogIds :
        \A other \in CatalogIds \ {id} : ArtifactPaths(id) \cap ArtifactPaths(other) = {}}

FsEvents == {"mkdir", "write", "remove"}

NpmEvents == {"install", "uninstall", "update"}

\* the positions of the trace l that hold an event of one of the kinds
Did(l, kinds) == {i \in DOMAIN l : l[i].ev \in kinds}

\* every child process and file-system call of the trace succeeded
NoFailure(l) == \A i \in DOMAIN l : l[i].ok

\* something went wrong for the plugin while its files were handled
FailedFor(l, id) ==
    \E i \in Did(l, FsEvents \cup {"resolve"}) : l[i].id = id /\ ~l[i].ok

ReportedFor(l, id) == \E i \in Did(l, {"report"}) : l[i].id = id

\* the operation gave up on the project, the catalog or the manifest
EarlyAbort == {"NotAProject", "CatalogUnavailable", "ManifestUnreadable"}

TreeUnchanged == files' = files /\ dirs' = dirs

C2_FailedInstallTouchesNothing ==
    [][(lastOp'.op = "add" /\ \E i \in Did(lastOp'.log, {"install"}) : ~lastOp'.log[i].ok) =>
         /\ TreeUnchanged
         /\ dependencies' = dependencies
         /\ Did(lastOp'.log, FsEvents \cup {"resolve"}) = {}
         /\ lastOp'.outcome = "PackageOperationFailed"]_vars

\* an Add of a batch of two whose npm install failed
C2_Witness ==
    /\ lastOp.op = "add" /\ Len(lastOp.batch) = 2
    /\ \E i \in Did(lastOp.log, {"install"}) :
          ~lastOp.log[i].ok /\ lastOp.log[i].batch = lastOp.batch

\* --------------------------------------------------------------------- C3
\* C3: in Remove, npm uninstall is invoked only after the descriptor
\* resolution (and with it the artifact removal) of every identifier of the
\* batch has been attempted, and nothing is resolved or deleted after it.
C3_UninstallAfterEveryCleanup ==
    lastOp.op = "remove" =>
      \A i \in Did(lastOp.log, {"uninstall"}) :
         /\ lastOp.log[i].batch = lastOp.batch
         /\ \A k \in DOMAIN lastOp.batch :
               \E j \in 1..(i-1) :
                  lastOp.log[j].ev = "resolve" /\ lastOp.log[j].id = lastOp.batch[k]
         /\ \A j \in Did(lastOp.log, {"resolve", "remove"}) : j < i

\* a Remove of two plugins that deleted files and then ran npm uninstall
C3_Witness ==
    /\ lastOp.op = "remove" /\ Len(lastOp.batch) = 2
    /\ Did(lastOp.log, {"uninstall"}) # {}
    /\ \A k \in DOMAIN lastOp.batch :
          \E j \in Did(lastOp.log, {"remove"}) : lastOp.log[j].id = lastOp.batch[k]

\* --------------------------------------------------------------------- C4
\* C4: in Remove, an identifier whose descriptor resolution fails has none
\* of its files deleted and is reported; the other identifiers of the batch
\* are still resolved and, unless they fail too, left without artifacts; the
\* single npm uninstall names the whole batch, the failing identifier
\* included, and when it succeeds that identifier is no longer a dependency.
C4_ResolutionFailureSkipsOnlyCleanup ==
    lastOp.op = "remove" =>
      \A k \in DOMAIN lastOp.batch :
         LET id == lastOp.batch[k]
             l  == lastOp.log
         IN  (\E j \in Did(l, {"resolve"}) : l[j].id = id /\ ~l[j].ok) =>
               /\ \A j \in Did(l, {"remove"}) : l[j].id # id
               /\ ReportedFor(l, id)
               /\ \A other \in Range(lastOp.batch) \ {id} :
                     /\ \E j \in Did(l, {"resolve"}) : l[j].id = other
                     /\ ~FailedFor(l, other) => ArtifactPaths(other) \cap DOMAIN files = {}
               /\ Cardinality(Did(l, {"uninstall"})) = 1
               /\ \A j \in Did(l, {"uninstall"}) :
                     /\ l[j].batch = lastOp.batch
                     /\ l[j].ok => id \notin DOMAIN dependencies

\* a Remove of two plugins: the first does not resolve, the files of the
\* second are deleted, and npm uninstall succeeds
C4_Witness ==
    /\ lastOp.op = "remove" /\ Len(lastOp.batch) = 2
    /\ \E j \in Did(lastOp.log, {"resolve"}) :
          lastOp.log[j].id = lastOp.batch[1] /\ ~lastOp.log[j].ok
    /\ \E j \in Did(lastOp.log, {"remove"}) :
          lastOp.log[j].id = lastOp.batch[2] /\ lastOp.log[j].ok
    /\ \E j \in Did(lastOp.log, {"uninstall"}) : lastOp.log[j].ok

\* --------------------------------------------------------------------- C5
\* C5: after a successful npm install, Add resolves every identifier of the
\* batch, in batch order; an identifier whose resolution or files fail is
\* reported, and every identifier that did not fail has all its artifacts
\* when Add returns.
C5_EveryIdentifierProcessed ==
    (lastOp.op = "add" /\ \E i \in Did(lastOp.log, {"install"}) : lastOp.log[i].ok) =>
      LET l == lastOp.log
          resolved == SelectIdx(l, Did(l, {"resolve"}))
      IN  /\ [i \in DOMAIN resolved |-> resolved[i].id] = lastOp.batch
          /\ \A id \in Range(lastOp.batch) :
                /\ FailedFor(l, id) <=> ReportedFor(l, id)
                /\ ~FailedFor(l, id) => ArtifactPaths(id) \subseteq DOMAIN files

\* an Add of two plugins: the first fails and is reported, the second gets
\* its files
C5_Witness ==
    /\ lastOp.op = "add" /\ Len(lastOp.batch) = 2
    /\ FailedFor(lastOp.log, lastOp.batch[1])
    /\ ReportedFor(lastOp.log, lastOp.batch[1])
    /\ ~FailedFor(lastOp.log, lastOp.batch[2])
    /\ \E j \in Did(lastOp.log, {"write"}) : lastOp.log[j].id = lastOp.batch[2]
    /\ ArtifactPaths(lastOp.batch[2]) \subseteq DOMAIN files

\* --------------------------------------------------------------------- C6
\* the operation did nothing: no prompt, no child process, no file-system
\* call, and the project is as it was
DidNothing ==
    /\ lastOp'.log = <<>>
    /\ TreeUnchanged
    /\ dependencies' = dependencies

\* C6 as stated: Add of any identifier of the installed set, in a project
\* whose catalog and manifest load, reports "already installed" and writes
\* nothing and does not invoke npm.
C6_InstalledIdentifierIsNoOp ==
    [][(/\ lastOp'.op = "add"
        /\ lastOp'.arg \in InstalledSet(dependencies)
        /\ lastOp'.outcome \notin EarlyAbort) =>
         lastOp'.outcome = "AlreadyInstalled" /\ DidNothing]_vars

\* C6 amended: Add of an identifier that is installed and listed in the
\* loaded catalog reports "already installed"; Add of an installed
\* identifier that the catalog does not list is rejected as an invalid
\* plugin name; both write nothing and do not invoke npm.
C6_InstalledCatalogIdentifierIsNoOp ==
    [][(/\ lastOp'.op = "add"
        /\ lastOp'.arg \in InstalledSet(dependencies)
        /\ lastOp'.outcome \notin EarlyAbort) =>
         /\ DidNothing
         /\ lastOp'.outcome =
              IF lastOp'.arg \in Range(lastOp'.available)
              THEN "AlreadyInstalled" ELSE "UnknownPlugin"]_vars

\* Add of an installed identifier that the catalog lists has answered
\* "already installed", with generated files in the project
C6_Witness ==
    /\ lastOp.op = "add" /\ lastOp.outcome = "AlreadyInstalled"
    /\ lastOp.arg \in InstalledSet(dependencies)
    /\ lastOp.arg \in Range(lastOp.available)
    /\ ArtifactPaths(lastOp.arg) \subseteq DOMAIN files

\* --------------------------------------------------------------------- C7
\* C7: Add of an identifier that is the value of no catalog entry fails as
\* unknown plugin (once the catalog and the manifest have loaded), and in no
\* case invokes npm, resolves a descriptor or writes a file.
C7_UnknownIdentifierIsRejected ==
    [][(/\ lastOp'.op = "add"
        /\ lastOp'.arg # NoName
        /\ lastOp'.arg \notin Range(lastOp'.available)) =>
         /\ DidNothing
         /\ lastOp'.outcome \notin EarlyAbort => lastOp'.outcome = "UnknownPlugin"]_vars

\* Add of a plugin package that a non-empty catalog does not list was
\* rejected
C7_Witness ==
    /\ lastOp.op = "add" /\ lastOp.outcome = "UnknownPlugin"
    /\ lastOp.arg \in CatalogIds
    /\ lastOp.available # <<>>
    /\ lastOp.arg \notin Range(lastOp.available)

\* --------------------------------------------------------------------- C8
\* C8: Add without an identifier offers exactly the catalog values that are
\* not in the installed set; the install batch, and the arguments of npm
\* install, are among them; when there is none, Add ends with "all
\* installed" without a prompt and without invoking npm.
C8_OffersExactlyTheMissing ==
    [][(/\ lastOp'.op = "add"
        /\ lastOp'.arg = NoName
        /\ lastOp'.outcome \notin EarlyAbort) =>
         LET missing == Range(lastOp'.available) \ InstalledSet(dependencies)
         IN  IF missing = {}
             THEN lastOp'.outcome = "AllInstalled" /\ DidNothing
             ELSE /\ lastOp'.log[1].ev = "prompt"
                  /\ lastOp'.offered = missing
                  /\ Range(lastOp'.batch) \subseteq missing
                  /\ \A i \in Did(lastOp'.log, NpmEvents) :
                        /\ lastOp'.log[i].ev = "install"
                        /\ Range(lastOp'.log[i].batch) \subseteq missing]_vars

\* an interactive Add that offered some, not all, of a catalog and installed
\* a selection
C8_Witness ==
    /\ lastOp.op = "add" /\ lastOp.arg = NoName /\ lastOp.outcome = "Done"
    /\ lastOp.offered # {}
    /\ lastOp.offered # Range(lastOp.available)
    /\ lastOp.batch # <<>>

\* Add without an identifier found every catalog entry installed
C8_WitnessAllInstalled ==
    /\ lastOp.op = "add" /\ lastOp.outcome = "AllInstalled"
    /\ lastOp.available # <<>>

\* --------------------------------------------------------------------- C9
\* C9: Remove, once the manifest has loaded, fails with "nothing installed"
\* when the installed set is empty and with "not installed" when the given
\* identifier is not in it; both delete nothing and do not invoke npm.
C9_RemoveOfNothingIsRejected ==
    [][(/\ lastOp'.op = "remove"
        /\ lastOp'.outcome \notin EarlyAbort) =>
         LET installed == InstalledSet(dependencies)
         IN  /\ installed = {} =>
                  lastOp'.outcome = "NothingInstalled" /\ DidNothing
             /\ (installed # {} /\ lastOp'.arg # NoName /\ lastOp'.arg \notin installed) =>
                  lastOp'.outcome = "NotInstalled" /\ DidNothing]_vars

\* Remove of a plugin that is not installed, while another one is installed
\* with its files, was rejected
C9_Witness ==
    /\ lastOp.op = "remove" /\ lastOp.outcome = "NotInstalled"
    /\ lastOp.arg \in CatalogIds
    /\ InstalledSet(dependencies) # {}
    /\ DOMAIN files # {}

\* -------------------------------------------------------------------- C10
\* C10: Update, whether npm update succeeds or fails, creates, overwrites
\* and deletes no file or directory and resolves no descriptor.
C10_UpdateLeavesArtifacts ==
    [][lastOp'.op = "update" =>
         /\ TreeUnchanged
         /\ Did(lastOp'.log, FsEvents \cup {"resolve"}) = {}]_vars

\* a successful Update of an installed plugin in a project with generated
\* files
C10_Witness ==
    /\ lastOp.op = "update" /\ lastOp.outcome = "Done"
    /\ \E i \in Did(lastOp.log, {"update"}) : lastOp.log[i].ok
    /\ \E id \in Range(lastOp.batch) : ArtifactPaths(id) \subseteq DOMAIN files
    /\ DOMAIN files # {}

\* ------------------------------------------- the reader of the installed set
\* names a manifest can hold: plugins, the prefix itself, a name that goes on
\* after the prefix without a dash, another package of the scope, packages of
\* no scope
ManifestNames ==
    {MongoPlugin, KafkaPlugin, PluginPrefix, <<Scope, "plugins", "x">>,
     <<Scope, "core">>, ExpressPackage, <<"plugins", "-", "mongo">>}

Versions == {"^1.0.0", "latest"}

\* the "dependencies" objects of package.json, of at most MaxDeps entries
Manifests ==
    UNION {[names -> Versions] :
             names \in {n \in SUBSET ManifestNames : Cardinality(n) <= MaxDeps}}

\* a call of GetInstalledPlugins in a directory
ReadInstalled ==
    /\ lastOp.op = "none"
    /\ \E ctx \in Contexts :
         lastOp' = [op |-> "GetInstalledPlugins", ctx |-> ctx,
                    result |-> GetInstalledPlugins(ctx, dependencies)]
    /\ UNCHANGED <<dependencies, files, dirs, ops>>

InitManifest ==
    /\ dependencies \in Manifests
    /\ files = <<>>
    /\ dirs = {<<"src">>}
    /\ ops = 0
    /\ lastOp = NoCommand

NextManifest ==
    \/ ReadInstalled
    \/ Exit

SpecManifest == InitManifest /\ [][NextManifest]_vars

\* "@godspeedsystems/plugins" written out
NamespacePrefix == <<"@godspeedsystems/", "plugins">>

\* the name starts with the namespace prefix
InNamespace(name) == Len(name) >= 2 /\ SubSeq(name, 1, 2) = NamespacePrefix

\* C11: the installed set the reader returns holds exactly the dependencies
\* of the manifest whose name starts with the plugin namespace prefix, each
\* with the version the manifest gives it, and no name outside the prefix
C11_InstalledSetIsThePrefixedDependencies ==
    (lastOp.op = "GetInstalledPlugins" /\ ~lastOp.result.err) =>
        /\ DOMAIN lastOp.result.plugins = {n \in DOMAIN dependencies : InNamespace(n)}
        /\ \A n \in DOMAIN lastOp.result.plugins :
             lastOp.result.plugins[n] = dependencies[n]

\* the manifest holds plugins and other packages, one of them of the same
\* scope, and the reader has returned the plugins only
C11_Witness ==
    /\ lastOp.op = "GetInstalledPlugins"
    /\ ~lastOp.result.err
    /\ {MongoPlugin, <<Scope, "core">>, ExpressPackage} \subseteq DOMAIN dependencies
    /\ DOMAIN lastOp.result.plugins = {MongoPlugin}
    /\ lastOp.result.plugins[MongoPlugin] = "latest"

\* ------------------------------------------------ the artifact functions
\* what getModuleInfo can return: the four fields a package exports, or an
\* error
ModuleTypes == {ModuleTypeDS, ModuleTypeES, ModuleTypeBoth, ""}

LoaderFileNames == {"prisma", "mongo"}

YamlFileNames == {"prisma", "mongo-cfg"}

DefaultConfigs == {<<>>, [uri |-> "x"], [type |-> "custom", brokers |-> "b"]}

Descriptors ==
    {[err |-> TRUE, moduleType |-> "", loaderFileName |-> "",
      yamlFileName |-> "", defaultConfig |-> <<>>]}
    \cup {[err |-> FALSE, moduleType |-> t, loaderFileName |-> l,
           yamlFileName |-> y, defaultConfig |-> c] :
            t \in ModuleTypes, l \in LoaderFileNames, y \in YamlFileNames,
            c \in DefaultConfigs}

\* the package the functions are called for
ArtifactPlugins == {MongoPlugin}

\* the trees the functions work in for a module type
TreesOf(moduleType) ==
    (IF moduleType \in {ModuleTypeES, ModuleTypeBoth} THEN {EventSourcesDir} ELSE {})
    \cup (IF moduleType \in {ModuleTypeDS, ModuleTypeBoth} THEN {DataSourcesDir} ELSE {})

\* the paths the functions pass to the file system for a descriptor
DescriptorTargets(m) ==
    {DirPath(TypesDir(tree)) : tree \in TreesOf(m.moduleType)}
    \cup {FilePath(TypesDir(tree), m.loaderFileName, "ts") : tree \in TreesOf(m.moduleType)}
    \cup {FilePath(tree, m.yamlFileName, "yaml") : tree \in TreesOf(m.moduleType)}

\* a config file the user wrote
UserContent == << <<"written", "by the user">> >>

\* the project trees the functions start from: nothing generated yet, or a
\* config file of the user under the data-source tree
InitialTrees ==
    {[files |-> <<>>, dirs |-> {<<"src">>}]}
    \cup {[files |-> (FilePath(DataSourcesDir, y, "yaml") :> UserContent),
           dirs |-> {<<"src">>, DataSourcesDir}] : y \in YamlFileNames}

\* the function returns r: the tree it leaves, what it was called with, the
\* calls it made and the tree it found
Returned(op, pluginName, m, r) ==
    /\ files' = r.fs.files
    /\ dirs' = r.fs.dirs
    /\ ops' = ops + 1
    /\ lastOp' = [op |-> op, arg |-> pluginName, m |-> m, err |-> r.err,
                  log |-> r.fs.log, before |-> [files |-> files, dirs |-> dirs]]
    /\ UNCHANGED dependencies

\* createPluginFiles(pluginName), for every descriptor getModuleInfo can
\* return and at most MaxFail failing file-system calls
CreateFiles ==
    /\ Ready
    /\ \E pluginName \in ArtifactPlugins, m \in Descriptors :
         \E ioFail \in SmallSubsets(DescriptorTargets(m), MaxFail) :
            Returned("createPluginFiles", pluginName, m,
                     createByModuleType(Fs, pluginName, m, ioFail))

\* removePluginFiles(pluginName)
RemoveFiles ==
    /\ Ready
    /\ \E pluginName \in ArtifactPlugins, m \in Descriptors :
         \E ioFail \in SmallSubsets(DescriptorTargets(m), MaxFail) :
            Returned("removePluginFiles", pluginName, m,
                     removeByModuleType(Fs, pluginName, m, ioFail))

InitArtifacts ==
    /\ \E tree \in InitialTrees : files = tree.files /\ dirs = tree.dirs
    /\ dependencies = (ExpressPackage :> "^4.18.0")
    /\ ops = 0
    /\ lastOp = NoCommand

NextArtifacts ==
    \/ CreateFiles
    \/ RemoveFiles
    \/ Exit

SpecArtifacts == InitArtifacts /\ [][NextArtifacts]_vars

\* the paths the last call wrote
WrittenPaths ==
    {lastOp.log[i].path : i \in {j \in Did(lastOp.log, {"write"}) : lastOp.log[j].ok}}

\* the type stubs written under the types directory of a tree
StubsIn(tree) == {p \in WrittenPaths : p.dir = TypesDir(tree) /\ p.file[2] = "ts"}

\* the config files written in a tree
ConfigsIn(tree) == {p \in WrittenPaths : p.dir = tree /\ p.file[2] = "yaml"}

\* the call produced exactly s stubs and c config files in the tree
ProducedIn(tree, s, c) ==
    Cardinality(StubsIn(tree)) = s /\ Cardinality(ConfigsIn(tree)) = c

\* every file written once, there after the call, a stub or a config file of
\* one of the two trees, and no other file appeared
ProducedWhatWasWritten ==
    /\ Cardinality(Did(lastOp.log, {"write"})) = Cardinality(WrittenPaths)
    /\ WrittenPaths \subseteq DOMAIN files
    /\ DOMAIN files \ DOMAIN lastOp.before.files \subseteq WrittenPaths
    /\ WrittenPaths = UNION {StubsIn(tree) \cup ConfigsIn(tree) :
                               tree \in {EventSourcesDir, DataSourcesDir}}

SuccessfulCreate == lastOp.op = "createPluginFiles" /\ ~lastOp.err

\* the number of config files of a tree for which the prisma loader makes an
\* exception
UnlessPrisma(loaderFileName) == IF loaderFileName = "prisma" THEN 0 ELSE 1

\* -------------------------------------------------------------------- C12
\* C12 as stated: a successful creation produces, for both types, one stub
\* per tree and one config file per tree (none under the data-source tree for
\* prisma); for one type, one stub and one config file in that tree only, and
\* the stub only if the loader is prisma, whichever the type is
C12_RoleCoverageAsStated ==
    SuccessfulCreate =>
        /\ ProducedWhatWasWritten
        /\ CASE lastOp.m.moduleType = ModuleTypeBoth ->
                  /\ ProducedIn(EventSourcesDir, 1, 1)
                  /\ ProducedIn(DataSourcesDir, 1, UnlessPrisma(lastOp.m.loaderFileName))
             [] lastOp.m.moduleType = ModuleTypeDS ->
                  /\ ProducedIn(DataSourcesDir, 1, UnlessPrisma(lastOp.m.loaderFileName))
                  /\ ProducedIn(EventSourcesDir, 0, 0)
             [] lastOp.m.moduleType = ModuleTypeES ->
                  /\ ProducedIn(EventSourcesDir, 1, UnlessPrisma(lastOp.m.loaderFileName))
                  /\ ProducedIn(DataSourcesDir, 0, 0)

\* C12 amended: a successful creation produces, for both types, one stub per
\* tree and one config file per tree (none under the data-source tree for
\* prisma); for a data source, one stub and one config file under the
\* data-source tree only, and the stub only if the loader is prisma; for an
\* event source, one stub and one config file under the event-source tree
\* only, whatever the loader
C12_RoleCoverage ==
    SuccessfulCreate =>
        /\ ProducedWhatWasWritten
        /\ CASE lastOp.m.moduleType = ModuleTypeBoth ->
                  /\ ProducedIn(EventSourcesDir, 1, 1)
                  /\ ProducedIn(DataSourcesDir, 1, UnlessPrisma(lastOp.m.loaderFileName))
             [] lastOp.m.moduleType = ModuleTypeDS ->
                  /\ ProducedIn(DataSourcesDir, 1, UnlessPrisma(lastOp.m.loaderFileName))
                  /\ ProducedIn(EventSourcesDir, 0, 0)
             [] lastOp.m.moduleType = ModuleTypeES ->
                  /\ ProducedIn(EventSourcesDir, 1, 1)
                  /\ ProducedIn(DataSourcesDir, 0, 0)

\* a module of both types with another loader than prisma got its four files
C12_Witness ==
    /\ SuccessfulCreate
    /\ lastOp.m.moduleType = ModuleTypeBoth
    /\ lastOp.m.loaderFileName = "mongo"
    /\ Cardinality(WrittenPaths) = 4
    /\ WrittenPaths \subseteq DOMAIN files

\* -------------------------------------------------------------------- C13
\* a config file under the data-source tree
IsDataSourceConfig(path) == path.dir = DataSourcesDir /\ path.file[2] = "yaml"

\* C13: a creation or removal for the prisma loader makes no write and no
\* remove call on a config file under the data-source tree, after any
\* sequence of creations and removals, and the files that were in that tree
\* are there with their content and no other has appeared
C13_PrismaConfigIsLeftAlone ==
    (/\ lastOp.op \in {"createPluginFiles", "removePluginFiles"}
     /\ lastOp.m.loaderFileName = "prisma") =>
        /\ \A i \in Did(lastOp.log, {"write", "remove"}) :
             ~IsDataSourceConfig(lastOp.log[i].path)
        /\ \A p \in DOMAIN lastOp.before.files :
             p.dir = DataSourcesDir =>
               p \in DOMAIN files /\ files[p] = lastOp.before.files[p]
        /\ \A p \in DOMAIN files :
             p.dir = DataSourcesDir => p \in DOMAIN lastOp.before.files

\* the removal of a prisma data source took its stub away and left the
\* prisma.yaml the user wrote
C13_Witness ==
    /\ lastOp.op = "removePluginFiles" /\ ~lastOp.err
    /\ lastOp.m.moduleType = ModuleTypeDS
    /\ lastOp.m.loaderFileName = "prisma" /\ lastOp.m.yamlFileName = "prisma"
    /\ FilePath(TypesDir(DataSourcesDir), "prisma", "ts") \in DOMAIN lastOp.before.files
    /\ FilePath(TypesDir(DataSourcesDir), "prisma", "ts") \notin DOMAIN files
    /\ FilePath(DataSourcesDir, "prisma", "yaml") \in DOMAIN files
    /\ files[FilePath(DataSourcesDir, "prisma", "yaml")] = UserContent

\* -------------------------------------------------------------------- C14
\* a call that returns r finds the tree as it is now and leaves it so
LeavesTheTree(r) == ~r.err /\ r.fs.files = files /\ r.fs.dirs = dirs

\* C14: after a successful creation, a second creation with the same name
\* and descriptor succeeds and leaves the same files with the same content
C14_CreateIsIdempotent ==
    SuccessfulCreate =>
        LeavesTheTree(createByModuleType(Fs, lastOp.arg, lastOp.m, {}))

\* a creation that found the files of an earlier creation with the same
\* descriptor and wrote them again
C14_Witness ==
    /\ SuccessfulCreate
    /\ lastOp.m.moduleType = ModuleTypeBoth
    /\ Cardinality(WrittenPaths) = 4
    /\ WrittenPaths \subseteq DOMAIN lastOp.before.files
    /\ lastOp.before.files = files

\* -------------------------------------------------------------------- C15
\* the call made no file-system call at all
NoFsCall(r) == Did(r.fs.log, FsEvents) = {}

\* the descriptor resolved to one of the three module types
Resolved(m) ==
    ~m.err /\ m.moduleType \in {ModuleTypeDS, ModuleTypeES, ModuleTypeBoth}

\* C15: a removal fails only if one of its calls fails, whichever of the
\* files are absent; it calls os.Remove only on files that are there; and
\* after a successful removal a second one succeeds, makes no file-system
\* call and changes nothing
C15_RemoveIsIdempotent ==
    (lastOp.op = "removePluginFiles" /\ Resolved(lastOp.m)) =>
        /\ NoFailure(lastOp.log) => ~lastOp.err
        /\ \A i \in Did(lastOp.log, {"remove"}) :
             lastOp.log[i].path \in DOMAIN lastOp.before.files
        /\ DOMAIN lastOp.before.files \cap DescriptorTargets(lastOp.m) = {} =>
             ~lastOp.err /\ files = lastOp.before.files /\ dirs = lastOp.before.dirs
        /\ ~lastOp.err =>
             /\ LeavesTheTree(removeByModuleType(Fs, lastOp.arg, lastOp.m, {}))
             /\ NoFsCall(removeByModuleType(Fs, lastOp.arg, lastOp.m, {}))

\* the removal of a module of both types found only some of its four files
\* and removed them without error
C15_Witness ==
    /\ lastOp.op = "removePluginFiles" /\ ~lastOp.err
    /\ lastOp.m.moduleType = ModuleTypeBoth /\ lastOp.m.loaderFileName = "mongo"
    /\ Cardinality(Did(lastOp.log, {"remove"})) \in 1..3
    /\ DOMAIN files \cap DescriptorTargets(lastOp.m) = {}

\* -------------------------------------------------------------------- C16
\* the lines of the body are the entries of defaultConfig, and type:
\* loaderFileName if defaultConfig has no type
IsMergedBody(body, loaderFileName, defaultConfig) ==
    /\ \A k \in DOMAIN defaultConfig : <<k, defaultConfig[k]>> \in Range(body)
    /\ "type" \notin DOMAIN defaultConfig => <<"type", loaderFileName>> \in Range(body)
    /\ Len(body) = Cardinality({"type"} \cup DOMAIN defaultConfig)

\* C16: every config file a creation writes holds type: loaderFileName and
\* every entry of defaultConfig, the type of defaultConfig instead of the
\* loader's when defaultConfig has one, and nothing else
C16_ConfigBodyIsTheMerge ==
    lastOp.op = "createPluginFiles" =>
        \A p \in WrittenPaths :
            p.file[2] = "yaml" =>
              IsMergedBody(files[p], lastOp.m.loaderFileName, lastOp.m.defaultConfig)

\* a config file written from a defaultConfig that has its own type
C16_Witness ==
    /\ SuccessfulCreate
    /\ lastOp.m.loaderFileName = "mongo"
    /\ "type" \in DOMAIN lastOp.m.defaultConfig
    /\ \E p \in WrittenPaths :
         /\ p.file[2] = "yaml"
         /\ files[p] = << <<"brokers", "b">>, <<"type", "custom">> >>

\* ------------------------------------------------------ the catalog provider
\* the sequences of at most n elements of a set
SeqsUpTo(S, n) == UNION {[1..k -> S] : k \in 0..n}

\* assets/plugins_list.json as LoadPluginsList can find it: the executable
\* path is unknown, the file is not there, it is there and cannot be read, it
\* is no JSON array of plugins, or it is one of at most MaxList entries
SnapshotInputs ==
    {[status |-> st, plugins |-> <<>>] :
        st \in {"noExecutable", "absent", "unreadable", "malformed"}}
    \cup {[status |-> "ok", plugins |-> l] :
            l \in SeqsUpTo({CatalogEntry(id) : id \in CatalogIds}, MaxList)}

\* what npm search can answer: the command fails, prints no JSON array, or
\* prints at most MaxList results, packages of the scope that are no plugins
\* among them
RemoteInputs ==
    {[status |-> st, results |-> <<>>] : st \in {"fail", "malformed"}}
    \cup {[status |-> "ok", results |-> l] :
            l \in SeqsUpTo({SearchResult(n) : n \in {MongoPlugin, KafkaPlugin, PluginPrefix}},
                           MaxList)}

\* a call of LoadPluginsList with the snapshot and the registry as they are
LoadList ==
    /\ lastOp.op = "none"
    /\ lastOp' = [op |-> "LoadPluginsList", snapshot |-> lastOp.snapshot,
                  remote |-> lastOp.remote,
                  result |-> LoadPluginsList(lastOp.snapshot, lastOp.remote)]
    /\ UNCHANGED <<dependencies, files, dirs, ops>>

\* the caller is done with the list
DropList ==
    /\ lastOp.op = "LoadPluginsList"
    /\ lastOp' = [op |-> "none", snapshot |-> lastOp.snapshot, remote |-> lastOp.remote]
    /\ UNCHANGED <<dependencies, files, dirs, ops>>

InitCatalog ==
    /\ \E snapshot \in SnapshotInputs, remote \in RemoteInputs :
         lastOp = [op |-> "none", snapshot |-> snapshot, remote |-> remote]
    /\ dependencies = (ExpressPackage :> "^4.18.0")
    /\ files = <<>>
    /\ dirs = {<<"src">>}
    /\ ops = 0

NextCatalog ==
    \/ LoadList
    \/ DropList

SpecCatalog == InitCatalog /\ [][NextCatalog]_vars

\* C17: the catalog provider returns an error only if no list can be had
\* from the snapshot (it cannot be located, is missing, unreadable or no
\* list) and the registry query fails or returns malformed data; in every
\* other case, a snapshot that is there and cannot be used and a working
\* registry included, it returns a list, an empty one too
C17_FailsOnlyIfBothSourcesFail ==
    lastOp.op = "LoadPluginsList" =>
        (lastOp.result.err =>
            /\ lastOp.snapshot.status # "ok"
            /\ lastOp.remote.status \in {"fail", "malformed"})

\* the snapshot is there and is no JSON array, the registry answers with
\* plugins, and the provider has returned an error
C17_Witness ==
    /\ lastOp.op = "LoadPluginsList"
    /\ lastOp.snapshot.status = "malformed"
    /\ lastOp.remote.status = "ok" /\ Len(lastOp.remote.results) > 0
    /\ lastOp.result.err

\* ------------------------------------------------------- the early returns
Commands == {"add", "remove", "update"}

\* the command made no call that changes the project: no package manager,
\* no descriptor resolution, no file-system call, and the manifest and the
\* tree are as they were
NoMutation ==
    /\ Did(lastOp'.log, NpmEvents \cup FsEvents \cup {"resolve"}) = {}
    /\ TreeUnchanged
    /\ dependencies' = dependencies

\* the directory has no marker file or no package manifest
LacksProjectFiles(ctx) == ctx.marker # "file" \/ ctx.manifest # "file"

\* -------------------------------------------------------------------- C18
\* C18: in a directory without the marker file or without the manifest, Add,
\* Remove and Update end with the message that it is no project and with a
\* non-zero exit status, and have queried no catalog, read no manifest, run
\* no package manager and written or deleted no file
C18_NotAProjectAbortsWithFailure ==
    [][(lastOp'.op \in Commands /\ LacksProjectFiles(lastOp'.ctx)) =>
         /\ lastOp'.outcome = "NotAProject"
         /\ ExitStatus(lastOp'.outcome) # 0
         /\ lastOp'.queries = <<>>
         /\ lastOp'.log = <<>>
         /\ NoMutation]_vars

\* Add of a plugin in a directory without the marker file has ended as no
\* project, and the process exits with status 0
C18_Witness ==
    /\ lastOp.op = "add" /\ lastOp.arg = MongoPlugin
    /\ lastOp.ctx.marker = "notexist"
    /\ lastOp.outcome = "NotAProject"
    /\ lastOp.log = <<>> /\ lastOp.queries = <<>>
    /\ ExitStatus(lastOp.outcome) = 0

\* -------------------------------------------------------------------- C19
\* the command is run in a project, and the catalog did not load or the
\* manifest cannot be read or parsed
LoadFailed(op) ==
    /\ ~LacksProjectFiles(op.ctx)
    /\ \/ op.ctx.read # "ok"
       \/ \E i \in DOMAIN op.queries : ~op.queries[i].ok

\* C19: when the catalog does not load or the manifest cannot be read or
\* parsed, Add, Remove and Update return without a package-manager call, a
\* descriptor resolution or a file written or deleted
C19_LoadFailureAbortsBeforeMutation ==
    [][(lastOp'.op \in Commands /\ LoadFailed(lastOp')) =>
         /\ lastOp'.outcome \in {"CatalogUnavailable", "ManifestUnreadable"}
         /\ lastOp'.batch = <<>>
         /\ NoMutation]_vars

\* the interactive Remove in a project with an installed plugin and its
\* files read the manifest, failed to load the catalog and returned
C19_Witness ==
    /\ lastOp.op = "remove" /\ lastOp.arg = NoName
    /\ lastOp.outcome = "CatalogUnavailable"
    /\ Len(lastOp.queries) = 2
    /\ lastOp.queries[1] = [what |-> "manifest", ok |-> TRUE]
    /\ lastOp.queries[2] = [what |-> "catalog", ok |-> FALSE]
    /\ InstalledSet(dependencies) # {}
    /\ DOMAIN files # {}
    /\ lastOp.log = <<>>

\* -------------------------------------------------------------------- C20
\* the multi-selection returned without error and with nothing ticked
EmptySelection(l) ==
    \E i \in Did(l, {"prompt"}) : l[i].ok /\ l[i].batch = <<>>

\* C20: when the multi-selection of the interactive Add, Remove or Update
\* returns with nothing ticked, the command ends as "nothing selected", the
\* process exits with status 0, and no package manager ran and no file was
\* written or deleted
C20_EmptySelectionIsNoOp ==
    [][(lastOp'.op \in Commands /\ EmptySelection(lastOp'.log)) =>
         /\ lastOp'.outcome = "NothingSelected"
         /\ ExitStatus(lastOp'.outcome) = 0
         /\ lastOp'.batch = <<>>
         /\ NoMutation]_vars

\* the interactive Update of a project with an installed plugin was offered
\* the plugin, nothing was ticked, and the command ended
C20_Witness ==
    /\ lastOp.op = "update"
    /\ lastOp.outcome = "NothingSelected"
    /\ lastOp.offered # {}
    /\ EmptySelection(lastOp.log)
    /\ Len(lastOp.log) = 1
    /\ InstalledSet(dependencies) # {}

\* -------------------------------------------------------------------- C21
\* the npm subcommand each command runs
NpmVerb(op) ==
    CASE op = "add" -> "install" [] op = "remove" -> "uninstall" [] op = "update" -> "update"

\* C21: a command that has a batch runs npm exactly once, with its own
\* subcommand and with the plugins of the batch, all of them and no other, as
\* arguments; the one exit status decides for the whole batch; a command
\* without a batch does not run npm
C21_OneInvocationForTheBatch ==
    lastOp.op \in Commands =>
        IF lastOp.batch = <<>>
        THEN Did(lastOp.log, NpmEvents) = {}
        ELSE /\ Cardinality(Did(lastOp.log, NpmEvents)) = 1
             /\ \A i \in Did(lastOp.log, NpmEvents) :
                  /\ lastOp.log[i].ev = NpmVerb(lastOp.op)
                  /\ lastOp.log[i].batch = lastOp.batch
                  /\ lastOp.outcome = IF lastOp.log[i].ok THEN "Done"
                                      ELSE "PackageOperationFailed"

\* an interactive Update of two plugins has run one npm update with both
C21_Witness ==
    /\ lastOp.op = "update"
    /\ Len(lastOp.batch) = 2
    /\ Cardinality(Did(lastOp.log, NpmEvents)) = 1
    /\ \E i \in Did(lastOp.log, {"update"}) :
         lastOp.log[i].ok /\ lastOp.log[i].batch = lastOp.batch

\* -------------------------------------------------------------------- C22
\* the catalog npm search has produced: two packages of the plugin namespace
\* whose modules export the same loader and config-file names
SearchedCatalog == <<CatalogEntry(MongoPlugin), CatalogEntry(LegacyPlugin)>>

\* a directory that holds .godspeed and a readable package.json
ProjectDir == [marker |-> "file", manifest |-> "file", read |-> "ok"]

\* the project after plugin add has installed the plugins into the fresh
\* project, with no failure
ProjectWith(plugins) ==
    installPlugins([files |-> <<>>, dirs |-> {<<"src">>}, log |-> <<>>,
                    queries |-> <<>>, ctx |-> ProjectDir],
                   (ExpressPackage :> "^4.18.0"), plugins, TRUE, {}, {})

\* plugin add <name> in the project, with the searched catalog
AddListed(pluginName) ==
    /\ Ready
    /\ LET availablePlugins == SearchedCatalog
           inst == GetInstalledPlugins(ProjectDir, dependencies)
           loaded == Queried(Found(ProjectDir), "catalog", [err |-> FALSE])
           read == Queried(loaded, "manifest", inst)
           decision == AddNamed(availablePlugins, inst.plugins, pluginName)
       IN  IF decision = "install"
           THEN RunInstall("add", pluginName, Values(availablePlugins), {}, read,
                           <<pluginName>>)
           ELSE Abort("add", pluginName, decision, Values(availablePlugins), {}, read)

\* plugin remove <name> in the project
RemoveNamed(pluginName) ==
    /\ Ready
    /\ LET inst == GetInstalledPlugins(ProjectDir, dependencies)
           read == Queried(Found(ProjectDir), "manifest", inst)
           check == RemoveCheck(inst.plugins, pluginName)
       IN  IF check = "remove"
           THEN RunRemove("remove", pluginName, <<>>, {}, read, <<pluginName>>)
           ELSE Abort("remove", pluginName, check, <<>>, {}, read)

InitOwnership ==
    /\ \E plugins \in {<<>>, <<MongoPlugin>>} :
         /\ dependencies = ProjectWith(plugins).deps
         /\ files = ProjectWith(plugins).fs.files
         /\ dirs = ProjectWith(plugins).fs.dirs
    /\ ops = 0
    /\ lastOp = NoCommand

NextOwnership ==
    \/ \E pluginName \in Range(Values(SearchedCatalog)) : AddListed(pluginName)
    \/ \E pluginName \in Range(Values(SearchedCatalog)) : RemoveNamed(pluginName)
    \/ Exit

SpecOwnership == InitOwnership /\ [][NextOwnership]_vars

\* the artifacts of the plugin that are on disk
ArtifactsOnDisk(id) == ArtifactPaths(id) \cap DOMAIN files

\* C22: no two installed plugins have an artifact at the same path
C22_EachArtifactHasOneOwner ==
    \A a \in InstalledSet(dependencies) : \A b \in InstalledSet(dependencies) \ {a} :
        ArtifactsOnDisk(a) \cap ArtifactsOnDisk(b) = {}

\* a plugin was removed with no failure, and an artifact of another plugin,
\* which is still installed, is gone
C22_Witness ==
    /\ lastOp.op = "remove"
    /\ lastOp.outcome = "Done"
    /\ lastOp.batch = <<LegacyPlugin>>
    /\ NoFailure(lastOp.log)
    /\ MongoPlugin \in InstalledSet(dependencies)
    /\ ~(ArtifactPaths(MongoPlugin) \subseteq DOMAIN files)

\* -------------------------------------------------------------------- C23
\* the packages the resolution is run for: a complete module, and modules
\* that lack the role, the loader name or the config-file name
ResolvedPlugins == {KafkaPlugin, BrokenPlugin, NamelessPlugin, UnconfiguredPlugin}

\* createPluginFiles(pluginName): the node child process loads the module or
\* not, and at most MaxFail file-system calls fail
CreateFor(pluginName) ==
    /\ Ready
    /\ \E nodeFail \in SUBSET {pluginName} :
         \E ioFail \in SmallSubsets(IoTargets({pluginName} \ nodeFail), MaxFail) :
            Returned("createPluginFiles", pluginName,
                     getModuleInfo(pluginName, pluginName \notin nodeFail),
                     createPluginFiles(Fs, pluginName, nodeFail, ioFail))

\* removePluginFiles(pluginName)
RemoveFor(pluginName) ==
    /\ Ready
    /\ \E nodeFail \in SUBSET {pluginName} :
         \E ioFail \in SmallSubsets(IoTargets({pluginName} \ nodeFail), MaxFail) :
            Returned("removePluginFiles", pluginName,
                     getModuleInfo(pluginName, pluginName \notin nodeFail),
                     removePluginFiles(Fs, pluginName, nodeFail, ioFail))

NextResolution ==
    \/ \E pluginName \in ResolvedPlugins : CreateFor(pluginName)
    \/ \E pluginName \in ResolvedPlugins : RemoveFor(pluginName)
    \/ Exit

SpecResolution == InitArtifacts /\ [][NextResolution]_vars

\* a required field the module of the package does not export
MissingFields(pluginName) ==
    {f \in {"SourceType", "Type", "CONFIG_FILE_NAME"} :
        ModuleExports(pluginName)[f] = Undefined}

ArtifactOps == {"createPluginFiles", "removePluginFiles"}

\* C23: whenever the module of the plugin cannot be loaded or lacks the role,
\* the loader name or the config-file name, createPluginFiles and
\* removePluginFiles return an error and write and remove no file
C23_MissingFieldFailsResolution ==
    (/\ lastOp.op \in ArtifactOps
     /\ lastOp.m.err \/ MissingFields(lastOp.arg) # {})
    => /\ lastOp.err
       /\ Did(lastOp.log, {"write", "remove"}) = {}

\* createPluginFiles of a module without loader name has returned nil and
\* has written a stub whose file name is the bare extension
C23_Witness ==
    /\ lastOp.op = "createPluginFiles"
    /\ lastOp.arg = NamelessPlugin
    /\ "Type" \in MissingFields(lastOp.arg)
    /\ ~lastOp.err
    /\ FilePath(TypesDir(DataSourcesDir), "", "ts") \in DOMAIN files

\* -------------------------------------------------------------------- C24
\* the module was loaded and its role is none of DS, ES and BOTH
UnknownModuleType(m) ==
    ~m.err /\ m.moduleType \notin {ModuleTypeDS, ModuleTypeES, ModuleTypeBoth}

\* C24: for a role that is none of the three, createPluginFiles and
\* removePluginFiles return the unknown-module-type error, make no
\* file-system call and leave the tree as they found it
C24_UnknownRoleTouchesNothing ==
    (lastOp.op \in ArtifactOps /\ UnknownModuleType(lastOp.m))
    => /\ lastOp.err
       /\ Did(lastOp.log, FsEvents) = {}
       /\ files = lastOp.before.files
       /\ dirs = lastOp.before.dirs

\* removePluginFiles was called for a module with an unknown role, in a tree
\* that holds the config file the descriptor names; the file is still there
C24_Witness ==
    /\ lastOp.op = "removePluginFiles"
    /\ UnknownModuleType(lastOp.m)
    /\ lastOp.m.loaderFileName # "prisma"
    /\ lastOp.err
    /\ FilePath(DataSourcesDir, lastOp.m.yamlFileName, "yaml") \in DOMAIN files

\* -------------------------------------------------------------------- C26
\* the positions of the trace at which a file-system call for the plugin
\* under the tree failed
FailedUnder(l, id, tree) ==
    {i \in Did(l, FsEvents) : l[i].id = id /\ ~l[i].ok /\ IsPrefixSeq(tree, l[i].path.dir)}

\* the files the trace has written for the plugin under the tree
WrittenUnder(l, id, tree) ==
    {l[i].path : i \in {j \in Did(l, {"write"}) :
                          l[j].id = id /\ l[j].ok /\ IsPrefixSeq(tree, l[j].path.dir)}}

\* C26: when the data-source files of a plugin of both roles fail in Add,
\* the event-source files written before for it are on disk when Add
\* returns and nothing was removed, the failure is reported for the plugin,
\* and every later plugin of the batch is resolved after the failure
C26_NoRollbackOfSiblingRole ==
    lastOp.op = "add" =>
      \A k \in DOMAIN lastOp.batch :
        (/\ getModuleInfo(lastOp.batch[k], TRUE).moduleType = ModuleTypeBoth
         /\ FailedUnder(lastOp.log, lastOp.batch[k], DataSourcesDir) # {})
        => /\ WrittenUnder(lastOp.log, lastOp.batch[k], EventSourcesDir)
                = {FilePath(TypesDir(EventSourcesDir), "mongo", "ts"),
                   FilePath(EventSourcesDir, "mongo-cfg", "yaml")}
           /\ WrittenUnder(lastOp.log, lastOp.batch[k], EventSourcesDir) \subseteq DOMAIN files
           /\ Did(lastOp.log, {"remove"}) = {}
           /\ ReportedFor(lastOp.log, lastOp.batch[k])
           /\ \A n \in DOMAIN lastOp.batch :
                n > k => \E i \in Did(lastOp.log, {"resolve"}) :
                           /\ lastOp.log[i].id = lastOp.batch[n]
                           /\ \A j \in FailedUnder(lastOp.log, lastOp.batch[k], DataSourcesDir) :
                                j < i

\* Add of the plugin of both roles and of a second plugin: the data-source
\* stub of the first could not be written, its event-source files are on
\* disk, and the second plugin has all its files
C26_Witness ==
    /\ lastOp.op = "add"
    /\ lastOp.batch = <<MongoPlugin, KafkaPlugin>>
    /\ \E i \in FailedUnder(lastOp.log, MongoPlugin, DataSourcesDir) :
         lastOp.log[i].ev = "write"
    /\ FilePath(EventSourcesDir, "mongo-cfg", "yaml") \in DOMAIN files
    /\ FilePath(TypesDir(DataSourcesDir), "mongo", "ts") \notin DOMAIN files
    /\ ReportedFor(lastOp.log, MongoPlugin)
    /\ ArtifactPaths(KafkaPlugin) \subseteq DOMAIN files

\* -------------------------------------------------------------------- C25
\* devops-plugin list: ~/.godspeed/devops-plugins and its package.json
DevopsPluginsDir == <<"~", ".godspeed", "devops-plugins">>

DevopsPackageJson == FilePath(DevopsPluginsDir, "package", "json")

DevopsPluginNames ==
    {<<Scope, "devops-plugin", "-", "aws">>, <<Scope, "devops-plugin", "-", "k8s">>,
     <<Scope, "devops-plugin", "-", "gcp">>}

\* npm search "@godspeedsystems/devops-plugin" --json: the command fails, its
\* output is not a JSON array, or it is a list of results
DevopsRemotes ==
    {[status |-> st, results |-> <<>>] : st \in {"fail", "malformed"}}
    \cup {[status |-> "ok", results |-> l] :
            l \in {<<>>, <<SearchResult(<<Scope, "devops-plugin", "-", "aws">>)>>,
                   <<SearchResult(<<Scope, "devops-plugin", "-", "aws">>),
                     SearchResult(<<Scope, "devops-plugin", "-", "k8s">>)>>}}

\* searchDevopsPlugins
searchDevopsPlugins(remote) ==
    IF remote.status # "ok" THEN [err |-> TRUE, plugins |-> <<>>]
    ELSE [err |-> FALSE,
          plugins |-> [i \in DOMAIN remote.results |->
                         [Name |-> remote.results[i].Name,
                          Description |-> remote.results[i].Description,
                          Version |-> remote.results[i].Version]]]

\* what List leaves: the file system, how it ended and the lines it printed
Listed(fs, outcome, printed) == [fs |-> fs, outcome |-> outcome, printed |-> printed]

\* listInstalledPlugins that creates the plugins directory when it is missing
listInstalledPlugins_CreatesDir(fs, deps, read, order) ==
    IF ~DirExists(StatDir(fs, DevopsPluginsDir))
    THEN Listed(CreateDir(fs, NoName, DevopsPluginsDir, {}).fs, "DirectoryNotFound", <<>>)
    ELSE IF ~FileExists(Stat(fs, DevopsPackageJson))
    THEN Listed(fs, "NoPackageJson", <<>>)
    ELSE IF read = "unreadable" THEN Listed(fs, "ReadError", <<>>)
    ELSE IF read = "malformed" THEN Listed(fs, "ParseError", <<>>)
    ELSE IF Cardinality(DOMAIN deps) = 0 THEN Listed(fs, "NoneInstalled", <<>>)
    ELSE Listed(fs, "Listed", order)

\* listInstalledPlugins: deps is the dependencies object of package.json,
\* read what ReadFile and Unmarshal make of the file, order the order in
\* which the range over the map yields the names
listInstalledPlugins(fs, deps, read, order) ==
    IF ~DirExists(StatDir(fs, DevopsPluginsDir))
    THEN Listed(fs, "DirectoryNotFound", <<>>)
    ELSE IF ~FileExists(Stat(fs, DevopsPackageJson))
    THEN Listed(fs, "NoPackageJson", <<>>)
    ELSE IF read = "unreadable" THEN Listed(fs, "ReadError", <<>>)
    ELSE IF read = "malformed" THEN Listed(fs, "ParseError", <<>>)
    ELSE IF Cardinality(DOMAIN deps) = 0 THEN Listed(fs, "NoneInstalled", <<>>)
    ELSE Listed(fs, "Listed", order)

\* listAvailablePlugins
listAvailablePlugins(fs, remote) ==
    LET found == searchDevopsPlugins(remote)
        f == Logged(fs, Event("search", NoName, DirPath(<<>>), ~found.err))
    IN  IF found.err THEN Listed(f, "SearchError", <<>>)
        ELSE IF Len(found.plugins) = 0 THEN Listed(f, "NoneFound", <<>>)
        ELSE Listed(f, "Listed", [i \in DOMAIN found.plugins |-> found.plugins[i].Name])

\* List(installed) has returned r
ListReturned(installed, r) ==
    /\ files' = r.fs.files
    /\ dirs' = r.fs.dirs
    /\ ops' = ops + 1
    /\ lastOp' = [op |-> "list", arg |-> installed, outcome |-> r.outcome,
                  printed |-> r.printed, log |-> r.fs.log,
                  before |-> [files |-> files, dirs |-> dirs]]
    /\ UNCHANGED dependencies

\* devops-plugin list [--installed]
List(installed) ==
    /\ Ready
    /\ IF installed
       THEN \E read \in ReadOutcomes :
              \E order \in {o \in Arrangements(DOMAIN dependencies, MaxDeps) :
                              Range(o) = DOMAIN dependencies} :
                 ListReturned(installed, listInstalledPlugins(Fs, dependencies, read, order))
       ELSE \E remote \in DevopsRemotes :
              ListReturned(installed, listAvailablePlugins(Fs, remote))

\* the home directory: no plugins directory, the directory without
\* package.json, or the directory with a package.json that npm init and npm
\* install have written
InitList ==
    /\ \E home \in {[dirs |-> {<<"~">>}, files |-> <<>>],
                    [dirs |-> Parents(DevopsPluginsDir), files |-> <<>>],
                    [dirs |-> Parents(DevopsPluginsDir),
                     files |-> (DevopsPackageJson :> << <<"dependencies">> >>)]} :
         /\ dirs = home.dirs
         /\ files = home.files
         /\ dependencies \in UNION {[names -> {InstalledVersion}] :
                                      names \in IF DevopsPackageJson \in DOMAIN home.files
                                                THEN SUBSET DevopsPluginNames ELSE {{}}}
    /\ ops = 0
    /\ lastOp = NoCommand

NextList ==
    \/ \E installed \in BOOLEAN : List(installed)
    \/ Exit

SpecList == InitList /\ [][NextList]_vars

\* List found nothing to print: no plugins directory, no package.json, no
\* dependency in it, or no search result
EmptyListOutcomes == {"DirectoryNotFound", "NoPackageJson", "NoneInstalled", "NoneFound"}

\* C25: List with either flag leaves every file, every directory and the
\* manifest as they were and makes no file-system call and no npm install,
\* uninstall or update; when there is nothing to list (no installed plugin,
\* or an empty search result) it prints no entry, ends with the message for
\* the empty result, and the process exits with status 0
C25_ListIsAPureRead ==
    lastOp.op = "list" =>
        /\ files = lastOp.before.files
        /\ dirs = lastOp.before.dirs
        /\ Did(lastOp.log, FsEvents \cup NpmEvents) = {}
        /\ IF lastOp.arg
           THEN (DevopsPackageJson \notin DOMAIN files \/ DOMAIN dependencies = {})
                => lastOp.outcome \in (EmptyListOutcomes \cup {"ReadError", "ParseError"})
           ELSE (lastOp.outcome # "SearchError" /\ lastOp.printed = <<>>)
                => lastOp.outcome = "NoneFound"
        /\ lastOp.outcome \in EmptyListOutcomes
             => lastOp.printed = <<>> /\ ExitStatus(lastOp.outcome) = 0
        /\ lastOp.outcome = "Listed" => lastOp.printed # <<>>

\* List(installed = true) in a home directory whose package.json has no
\* dependency has ended with the message that nothing is installed
C25_Witness ==
    /\ lastOp.op = "list"
    /\ lastOp.arg
    /\ DevopsPackageJson \in DOMAIN files
    /\ DOMAIN dependencies = {}
    /\ lastOp.outcome = "NoneInstalled"
    /\ lastOp.printed = <<>>

\* -------------------------------------------------------------- C27, C28
\* otel enable / otel disable: the .env file of the project
EnvFile == FilePath(<<>>, "", "env")

OtelKey == "OTEL_ENABLED="

TracingPackage == <<Scope, "tracing">>

\* the lines a .env file is made of, as sequences of tokens: the flag set and
\* cleared, the flag between blanks, another variable, the flag commented out
EnvLines ==
    {<<OtelKey, "true">>, <<OtelKey, "false">>, <<" ", OtelKey, "true", " ">>,
     <<"PORT=", "3000">>, <<"#", OtelKey, "true">>}

\* strings.TrimSpace
TrimSpace(line) ==
    LET solid == {i \in DOMAIN line : line[i] # " "}
    IN  IF solid = {} THEN <<>>
        ELSE SubSeq(line, CHOOSE i \in solid : \A j \in solid : i <= j,
                          CHOOSE i \in solid : \A j \in solid : i >= j)

\* otelEnabled
otelEnabled(envContent) ==
    \E i \in DOMAIN envContent : TrimSpace(envContent[i]) = <<OtelKey, "true">>

\* the lines that set the flag
FlagLines(envContent) ==
    {i \in DOMAIN envContent : HasPrefix(TrimSpace(envContent[i]), <<OtelKey>>)}

\* updateEnvForOtel that rewrites every line that sets the flag
updateEnvForOtel_EveryLine(envContent, enable) ==
    IF FlagLines(envContent) # {}
    THEN [i \in DOMAIN envContent |->
            IF i \in FlagLines(envContent)
            THEN <<OtelKey, IF enable THEN "true" ELSE "false">>
            ELSE envContent[i]]
    ELSE Append(envContent, <<OtelKey, IF enable THEN "true" ELSE "false">>)

\* updateEnvForOtel: the first line that sets the flag is replaced, or a line
\* is appended
updateEnvForOtel(envContent, enable) ==
    IF FlagLines(envContent) # {}
    THEN [envContent EXCEPT
            ![CHOOSE i \in FlagLines(envContent) : \A j \in FlagLines(envContent) : i <= j]
               = <<OtelKey, IF enable THEN "true" ELSE "false">>]
    ELSE Append(envContent, <<OtelKey, IF enable THEN "true" ELSE "false">>)

\* installTracing / uninstallTracing: one npm child process
runTracing(fs, deps, enable, npmOk) ==
    [fs |-> Logged(fs, NpmEvent(IF enable THEN "install" ELSE "uninstall",
                                <<TracingPackage>>, npmOk)),
     deps |-> IF ~npmOk THEN deps
              ELSE IF enable THEN NpmInstall(deps, <<TracingPackage>>)
              ELSE NpmUninstall(deps, <<TracingPackage>>)]

\* writeEnvFile, then the message of success or of the write error
writeEnv(t, envContent, ioFail) ==
    LET w == WriteFile(t.fs, NoName, EnvFile, envContent, ioFail)
    IN  [fs |-> w.fs, deps |-> t.deps, outcome |-> IF w.err THEN "WriteError" ELSE "Done"]

\* the body Enable (enable = TRUE) and Disable (enable = FALSE) share: ctx is
\* the directory, readOk whether .env can be read, npmOk whether the npm
\* child process succeeds, ioFail the paths that cannot be written
switchOtel(fs, deps, enable, ctx, readOk, npmOk, ioFail) ==
    IF ~IsGodspeedProject(ctx) THEN [fs |-> fs, deps |-> deps, outcome |-> "NotAProject"]
    ELSE IF ~FileExists(Stat(fs, EnvFile))
    THEN [fs |-> fs, deps |-> deps, outcome |-> "NoEnvFile"]
    ELSE IF ~readOk THEN [fs |-> fs, deps |-> deps, outcome |-> "ReadError"]
    ELSE IF otelEnabled(fs.files[EnvFile]) = enable
    THEN [fs |-> runTracing(fs, deps, enable, npmOk).fs,
          deps |-> runTracing(fs, deps, enable, npmOk).deps,
          outcome |-> "Already"]
    ELSE IF ~npmOk
    THEN [fs |-> runTracing(fs, deps, enable, npmOk).fs, deps |-> deps,
          outcome |-> "PackageOperationFailed"]
    ELSE writeEnv(runTracing(fs, deps, enable, npmOk),
                  updateEnvForOtel(fs.files[EnvFile], enable), ioFail)

\* the command has returned r
OtelReturned(op, r) ==
    /\ files' = r.fs.files
    /\ dirs' = r.fs.dirs
    /\ dependencies' = r.deps
    /\ ops' = ops + 1
    /\ lastOp' = [op |-> op, outcome |-> r.outcome, log |-> r.fs.log,
                  before |-> files]

\* otel enable
Enable ==
    /\ Ready
    /\ \E ctx \in Contexts, readOk \in BOOLEAN, npmOk \in BOOLEAN, ioFail \in SUBSET {EnvFile} :
         OtelReturned("enable", switchOtel(Fs, dependencies, TRUE, ctx, readOk, npmOk, ioFail))

\* otel disable
Disable ==
    /\ Ready
    /\ \E ctx \in Contexts, readOk \in BOOLEAN, npmOk \in BOOLEAN, ioFail \in SUBSET {EnvFile} :
         OtelReturned("disable", switchOtel(Fs, dependencies, FALSE, ctx, readOk, npmOk, ioFail))

\* a project without .env, or with a .env of at most MaxLines lines
InitOtel ==
    /\ files \in {<<>>} \cup {(EnvFile :> envContent) : envContent \in SeqsUpTo(EnvLines, MaxLines)}
    /\ dirs = {<<"src">>}
    /\ dependencies = (ExpressPackage :> "^4.18.0")
    /\ ops = 0
    /\ lastOp = NoCommand

NextOtel ==
    \/ Enable
    \/ Disable
    \/ Exit

SpecOtel == InitOtel /\ [][NextOtel]_vars

OtelOps == {"enable", "disable"}

\* C27: after Enable has reported success the .env on disk satisfies
\* otelEnabled, and after Disable has reported success it does not, whatever
\* the file held before
C27_FlagMatchesTheReportedState ==
    (lastOp.op \in OtelOps /\ lastOp.outcome = "Done")
    => (otelEnabled(files[EnvFile]) <=> lastOp.op = "enable")

\* Disable has reported success on a .env with two lines that set the flag,
\* and the file still satisfies otelEnabled
C27_Witness ==
    /\ lastOp.op = "disable"
    /\ lastOp.outcome = "Done"
    /\ Cardinality(FlagLines(lastOp.before[EnvFile])) >= 2
    /\ otelEnabled(files[EnvFile])

\* the trace holds a successful write of .env
Rewritten(l) == \E i \in Did(l, {"write"}) : l[i].ok /\ l[i].path = EnvFile

\* b is a with at most one line replaced, or with one line appended
OneLineApart(a, b) ==
    \/ Len(b) = Len(a) /\ Cardinality({i \in DOMAIN a : a[i] # b[i]}) <= 1
    \/ Len(b) = Len(a) + 1 /\ SubSeq(b, 1, Len(a)) = a

\* C28: Enable and Disable write .env only after their npm child process has
\* succeeded; when it fails, or the flag is already as requested, no write is
\* attempted and the files are as before; a .env that is rewritten differs
\* from the one before in at most one line, replaced or appended
C28_EnvRewrittenOnlyAfterPackageStep ==
    lastOp.op \in OtelOps =>
        /\ \A i \in Did(lastOp.log, {"write"}) :
              \E j \in Did(lastOp.log, NpmEvents) : j < i /\ lastOp.log[j].ok
        /\ (lastOp.outcome \in {"PackageOperationFailed", "Already"}
              \/ \E j \in Did(lastOp.log, NpmEvents) : ~lastOp.log[j].ok)
           => Did(lastOp.log, {"write"}) = {} /\ files = lastOp.before
        /\ IF Rewritten(lastOp.log)
           THEN OneLineApart(lastOp.before[EnvFile], files[EnvFile])
           ELSE files = lastOp.before

\* Enable has replaced the second of three lines and left the others
C28_Witness ==
    /\ lastOp.op = "enable"
    /\ lastOp.outcome = "Done"
    /\ Rewritten(lastOp.log)
    /\ Len(files[EnvFile]) = 3
    /\ files[EnvFile][1] = lastOp.before[EnvFile][1]
    /\ files[EnvFile][2] # lastOp.before[EnvFile][2]
    /\ files[EnvFile][3] = lastOp.before[EnvFile][3]

\* -------------------------------------------------------------------- C29
\* godspeed link / unlink: ~/.godspeed/services.json
GodspeedDir == <<"~", ".godspeed">>

ServicesFile == FilePath(GodspeedDir, "services", "json")

\* the directories the commands are run in; two of them have the same base
\* name
ProjectPaths == {<<"home", "a">>, <<"home", "b">>, <<"srv", "a">>}

\* filepath.Base
Base(path) == path[Len(path)]

Service(path, status, lastUpdated) ==
    [ServiceID |-> Base(path), Name |-> Base(path), Path |-> path, Status |-> status,
     LastUpdated |-> lastUpdated, Initialized |-> TRUE]

\* time.Now().UTC().Format(time.RFC3339) when the command runs
Now == "2024-02-02T00:00:00Z"

\* the entries services.json can hold before the command
ServiceEntries ==
    {Service(p, st, "2024-01-01T00:00:00Z") : p \in ProjectPaths, st \in {"active", "stopped"}}

\* the positions of the list whose Path is the directory
EntriesOf(services, dir) == {i \in DOMAIN services : services[i].Path = dir}

\* no two entries of the list have the same Path
DistinctPaths(services) ==
    \A i, j \in DOMAIN services : i # j => services[i].Path # services[j].Path

\* UpdateServicesJson(true) that appends the project without looking for it
UpdateServicesJson_AlwaysAppends(fs, add, currentDir, read, getwdOk, ioFail) ==
    LET present == FileExists(Stat(fs, ServicesFile))
        services == IF present THEN fs.files[ServicesFile] ELSE <<>>
        updated == IF add THEN Append(services, Service(currentDir, "active", Now))
                   ELSE SelectIdx(services, DOMAIN services \ EntriesOf(services, currentDir))
        write(g) == WriteFile(g, NoName, ServicesFile, updated, ioFail)
    IN  IF ~present /\ ~add THEN [fs |-> fs, outcome |-> "NoServicesFile"]
        ELSE IF present /\ read = "unreadable" THEN [fs |-> fs, outcome |-> "ReadError"]
        ELSE IF present /\ read = "malformed" THEN [fs |-> fs, outcome |-> "ParseError"]
        ELSE IF ~getwdOk THEN [fs |-> fs, outcome |-> "NoCurrentDir"]
        ELSE [fs |-> Then(CreateDir(fs, NoName, GodspeedDir, ioFail), write).fs,
              outcome |-> IF Then(CreateDir(fs, NoName, GodspeedDir, ioFail), write).err
                          THEN "WriteError" ELSE "Done"]

\* UpdateServicesJson(add): currentDir is what os.Getwd returns (getwdOk:
\* whether it succeeds), read what os.ReadFile and json.Unmarshal make of
\* the file, ioFail the paths on which a file-system call fails
UpdateServicesJson(fs, add, currentDir, read, getwdOk, ioFail) ==
    LET present == FileExists(Stat(fs, ServicesFile))
        services == IF present THEN fs.files[ServicesFile] ELSE <<>>
        updated == IF add
                   THEN IF EntriesOf(services, currentDir) # {} THEN services
                        ELSE Append(services, Service(currentDir, "active", Now))
                   ELSE SelectIdx(services, DOMAIN services \ EntriesOf(services, currentDir))
        write(g) == WriteFile(g, NoName, ServicesFile, updated, ioFail)
    IN  IF ~present /\ ~add THEN [fs |-> fs, outcome |-> "NoServicesFile"]
        ELSE IF present /\ read = "unreadable" THEN [fs |-> fs, outcome |-> "ReadError"]
        ELSE IF present /\ read = "malformed" THEN [fs |-> fs, outcome |-> "ParseError"]
        ELSE IF ~getwdOk THEN [fs |-> fs, outcome |-> "NoCurrentDir"]
        ELSE [fs |-> Then(CreateDir(fs, NoName, GodspeedDir, ioFail), write).fs,
              outcome |-> IF Then(CreateDir(fs, NoName, GodspeedDir, ioFail), write).err
                          THEN "WriteError" ELSE "Done"]

\* the command has returned r
ServicesReturned(op, currentDir, r) ==
    /\ files' = r.fs.files
    /\ dirs' = r.fs.dirs
    /\ ops' = ops + 1
    /\ lastOp' = [op |-> op, arg |-> currentDir, outcome |-> r.outcome, log |-> r.fs.log,
                  before |-> files]
    /\ UNCHANGED dependencies

\* godspeed link in the directory
Link(currentDir) ==
    /\ Ready
    /\ \E ctx \in Contexts, read \in ReadOutcomes, getwdOk \in BOOLEAN,
          ioFail \in SmallSubsets({DirPath(GodspeedDir), ServicesFile}, MaxFail) :
         ServicesReturned("link", currentDir,
                          IF IsGodspeedProject(ctx)
                          THEN UpdateServicesJson(Fs, TRUE, currentDir, read, getwdOk, ioFail)
                          ELSE [fs |-> Fs, outcome |-> "NotAProject"])

\* godspeed unlink in the directory
Unlink(currentDir) ==
    /\ Ready
    /\ \E ctx \in Contexts, read \in ReadOutcomes, getwdOk \in BOOLEAN,
          ioFail \in SmallSubsets({DirPath(GodspeedDir), ServicesFile}, MaxFail) :
         ServicesReturned("unlink", currentDir,
                          IF IsGodspeedProject(ctx)
                          THEN UpdateServicesJson(Fs, FALSE, currentDir, read, getwdOk, ioFail)
                          ELSE [fs |-> Fs, outcome |-> "NotAProject"])

\* no ~/.godspeed yet, or a services.json of at most MaxServices entries, no
\* two of them with the same Path
InitServices ==
    /\ \E home \in {[dirs |-> {<<"~">>}, files |-> <<>>]}
                   \cup {[dirs |-> Parents(GodspeedDir), files |-> (ServicesFile :> l)] :
                           l \in {q \in SeqsUpTo(ServiceEntries, MaxServices) :
                                    DistinctPaths(q)}} :
         dirs = home.dirs /\ files = home.files
    /\ dependencies = (ExpressPackage :> "^4.18.0")
    /\ ops = 0
    /\ lastOp = NoCommand

NextServices ==
    \/ \E currentDir \in ProjectPaths : Link(currentDir)
    \/ \E currentDir \in ProjectPaths : Unlink(currentDir)
    \/ Exit

SpecServices == InitServices /\ [][NextServices]_vars

\* the entries of the list that belong to other directories, in order
OthersIn(services, dir) == SelectIdx(services, DOMAIN services \ EntriesOf(services, dir))

\* C29: services.json never holds two entries with the same Path; after a
\* successful link exactly one entry has the current directory as Path,
\* after a successful unlink none; the entries of the other directories are
\* the same, in the same order, as before the command; a command that does
\* not succeed leaves the files as they were, and unlink without
\* services.json makes no file-system call
C29_ServicesListKeepsOneEntryPerPath ==
    /\ ServicesFile \in DOMAIN files => DistinctPaths(files[ServicesFile])
    /\ lastOp.op \in {"link", "unlink"} =>
         IF lastOp.outcome = "Done"
         THEN /\ Cardinality(EntriesOf(files[ServicesFile], lastOp.arg))
                   = IF lastOp.op = "link" THEN 1 ELSE 0
              /\ OthersIn(files[ServicesFile], lastOp.arg)
                   = IF ServicesFile \in DOMAIN lastOp.before
                     THEN OthersIn(lastOp.before[ServicesFile], lastOp.arg)
                     ELSE <<>>
         ELSE /\ files = lastOp.before
              /\ lastOp.outcome = "NoServicesFile"
                   => ServicesFile \notin DOMAIN files /\ lastOp.log = <<>>

\* link in a directory that shares its base name with a linked one: both
\* entries are in the list, the older one first and as it was
C29_Witness ==
    /\ lastOp.op = "link"
    /\ lastOp.outcome = "Done"
    /\ lastOp.arg = <<"srv", "a">>
    /\ ServicesFile \in DOMAIN lastOp.before
    /\ Len(lastOp.before[ServicesFile]) = 1
    /\ Len(files[ServicesFile]) = 2
    /\ files[ServicesFile][1] = lastOp.before[ServicesFile][1]
    /\ files[ServicesFile][1].Path = <<"home", "a">>
    /\ files[ServicesFile][2].Path = <<"srv", "a">>

\* -------------------------------------------------------------------- C30
\* what os.Stat can return: a file, a directory, the not-exist error, or
\* another error (permission denied on a parent directory, a parent that is
\* no directory); with an error the FileInfo is nil
StatResults == StatOutcomes \cup {"denied"}

\* the paths the checks are made on
MarkerPath == FilePath(<<>>, "", "godspeed")

ManifestPath == FilePath(<<>>, "package", "json")

StatPaths ==
    {MarkerPath, ManifestPath, FilePath(TypesDir(EventSourcesDir), "kafka", "ts"),
     FilePath(EventSourcesDir, "kafka", "yaml")}

\* the function returns a boolean
Returns(value) == [panic |-> FALSE, value |-> value]

\* the goroutine panics: a method is called on the nil FileInfo
Panics == [panic |-> TRUE, value |-> FALSE]

\* utils.FileExists for every result of os.Stat: only the not-exist error is
\* looked at before info.IsDir() is called
FileExistsCall(st) == IF st = "denied" THEN Panics ELSE Returns(FileExists(st))

\* utils.DirExists for every result of os.Stat
DirExistsCall(st) == IF st = "denied" THEN Panics ELSE Returns(DirExists(st))

\* utils.IsGodspeedProject for every result of the two os.Stat calls
IsGodspeedProjectCall(stat) ==
    IF FileExistsCall(stat[MarkerPath]).panic THEN Panics
    ELSE IF ~FileExistsCall(stat[MarkerPath]).value THEN Returns(FALSE)
    ELSE IF FileExistsCall(stat[ManifestPath]).panic THEN Panics
    ELSE Returns(FileExistsCall(stat[ManifestPath]).value)

\* if utils.FileExists(path) { os.Remove(path) }: r is what was returned so
\* far and the stat results the removals have left
RemoveChecked(r, path) ==
    IF r.panic THEN r
    ELSE IF FileExistsCall(r.stat[path]).panic THEN [r EXCEPT !.panic = TRUE]
    ELSE IF FileExistsCall(r.stat[path]).value
    THEN [r EXCEPT !.stat = [r.stat EXCEPT ![path] = "notexist"]]
    ELSE r

\* removeEventSourceFiles for every result of the two os.Stat calls
removeEventSourceFilesCall(stat, loaderFileName, yamlFileName) ==
    RemoveChecked(RemoveChecked([panic |-> FALSE, value |-> TRUE, stat |-> stat],
                                FilePath(TypesDir(EventSourcesDir), loaderFileName, "ts")),
                  FilePath(EventSourcesDir, yamlFileName, "yaml"))

\* the call has returned or the process has crashed
Checked(op, path, r, stat) ==
    /\ lastOp' = [op |-> op, path |-> path, before |-> lastOp.stat, stat |-> stat,
                  result |-> [panic |-> r.panic, value |-> r.value]]
    /\ UNCHANGED <<dependencies, files, dirs, ops>>

CheckFile(path) ==
    /\ lastOp.op = "none"
    /\ Checked("FileExists", path, FileExistsCall(lastOp.stat[path]), lastOp.stat)

CheckDir(path) ==
    /\ lastOp.op = "none"
    /\ Checked("DirExists", path, DirExistsCall(lastOp.stat[path]), lastOp.stat)

CheckProject ==
    /\ lastOp.op = "none"
    /\ Checked("IsGodspeedProject", MarkerPath, IsGodspeedProjectCall(lastOp.stat), lastOp.stat)

RemoveEventSource ==
    /\ lastOp.op = "none"
    /\ Checked("removeEventSourceFiles", FilePath(TypesDir(EventSourcesDir), "kafka", "ts"),
               removeEventSourceFilesCall(lastOp.stat, "kafka", "kafka"),
               removeEventSourceFilesCall(lastOp.stat, "kafka", "kafka").stat)

\* the next call finds the paths as the last one left them
NextCall ==
    /\ lastOp.op # "none"
    /\ lastOp' = [op |-> "none", stat |-> lastOp.stat]
    /\ UNCHANGED <<dependencies, files, dirs, ops>>

InitStat ==
    /\ \E stat \in [StatPaths -> StatResults] : lastOp = [op |-> "none", stat |-> stat]
    /\ dependencies = (ExpressPackage :> "^4.18.0")
    /\ files = <<>>
    /\ dirs = {<<"src">>}
    /\ ops = 0

NextStat ==
    \/ \E path \in StatPaths : CheckFile(path)
    \/ \E path \in StatPaths : CheckDir(path)
    \/ CheckProject
    \/ RemoveEventSource
    \/ NextCall

SpecStat == InitStat /\ [][NextStat]_vars

StatOps == {"FileExists", "DirExists", "IsGodspeedProject", "removeEventSourceFiles"}

\* C30: FileExists and DirExists return for every result of os.Stat, true
\* exactly for a file (FileExists) or a directory (DirExists) and false when
\* the stat fails for whatever reason; the project check and the removal of
\* the event-source files never crash
C30_ExistenceChecksNeverFault ==
    lastOp.op \in StatOps =>
        /\ ~lastOp.result.panic
        /\ lastOp.op = "FileExists" => (lastOp.result.value <=> lastOp.before[lastOp.path] = "file")
        /\ lastOp.op = "DirExists" => (lastOp.result.value <=> lastOp.before[lastOp.path] = "dir")

\* removeEventSourceFiles has crashed on a stub whose stat is denied, with
\* the config file still on disk
C30_Witness ==
    /\ lastOp.op = "removeEventSourceFiles"
    /\ lastOp.before[FilePath(TypesDir(EventSourcesDir), "kafka", "ts")] = "denied"
    /\ lastOp.result.panic
    /\ lastOp.stat[FilePath(EventSourcesDir, "kafka", "yaml")] = "file"
====
